---- MODULE Spec2Model ----
(***************************************************************************)
(* Verification model of the voice_signal_capture pipeline.                *)
(*                                                                         *)
(*   Spec     backend-daemon/daemon.py: the ASR worker's main loop and its *)
(*            EventQueueManager (per-peer heaps, publication order).       *)
(*   SpecSeg  listen_and_build_voice_stream.py: VoiceSegment.add_packet    *)
(*            and the capture's packet_callback append path.               *)
(*   SpecWS   websocket-server/websocket.py: client registry and           *)
(*            _dispatch_asr_event.                                         *)
(*                                                                         *)
(* Time is counted in whole seconds.  pub_sock.send_json is taken to       *)
(* succeed: `wire' lists the events handed to the PUB socket, in order.    *)
(***************************************************************************)
EXTENDS Integers, Sequences, FiniteSets, TLC

None == "None"
\* Python's None where a set is expected (allow_ips)
NoneSet == {None}

(* ---------------------------- bounds ----------------------------------- *)
\* segments received by the daemon in one run
MaxSegs == 3
\* last second the clock reaches
MaxTime == 6

(* ----------------------- program constants ----------------------------- *)
\* EventQueueManager(pub_sock, max_delay_sec=5.0)
MaxDelay == 5

(* ------------------------- input domains ------------------------------- *)
\* the call legs that send segments: (peer_ip, source, unique_key, ssrc)
CallIds == {<<"10.0.0.1", "citizen", "u1", 7>>,
            <<"10.0.0.1", "hot-line", "u1", 8>>,
            <<"10.0.0.2", "citizen", "u2", 7>>}
\* meta['start_ts'] in seconds: <<>> for None (field absent), <<s>> for s
StartTsSet == {<<>>, <<1>>}
\* vad_start_ms reported by the recogniser
VadMsSet == {1000}
\* the allow_list file: Missing, or its lines after strip()
Missing == <<"missing">>
AllowFiles == {Missing, <<"">>, <<"10.0.0.1", "">>}

VARIABLES
    allow_file,      \* the allow_list file found at startup
    allow_ips,       \* main: allow_ips
    call_state,      \* main: call_state, key -> [chunks, bytes, last_text]
    queues,          \* EventQueueManager.queues, in dict (insertion) order
    last_published,  \* EventQueueManager.last_published
    wire,            \* events handed to pub_sock.send_json, in order
    wire_info,       \* per wire entry: which code sent it (by), when its event
                     \* was received (recv), how long it was held (wait) and
                     \* the number of the segment it was produced from (seg)
    now,             \* time.time(), whole seconds
    nsegs,           \* segments received so far
    last_peer,       \* peer_ip of the segment received last (None: none yet)
    daemon_pc        \* "running" | "exited"

daemon_vars == <<allow_file, allow_ips, call_state, queues, last_published,
                 wire, wire_info, now, nsegs, last_peer, daemon_pc>>

VARIABLES
    seg,                 \* a VoiceSegment fed through add_packet
    segments,            \* VoiceStreamCapture.segments, call_id -> VoiceSegment
    segment_counters,    \* VoiceStreamCapture.segment_counters
    published,           \* segments handed to publisher.publish_segment, in order
    duration_threshold,  \* VoiceStreamCapture.duration_threshold, in samples
    base_seq,            \* RTP sequence number of the call's first packet
    arrivals,            \* the packets delivered so far, in order of arrival
    calls,               \* VoiceStreamCapture.calls, in dict (insertion) order
    zmq_out,             \* the messages the publisher sent, in order
    mono,                \* time.monotonic(), whole seconds
    call_event,          \* the packet or timeout check handled last
    ncall_events,        \* SIP and RTP packets captured so far
    rtp_pc,              \* packet_callback on an RTP packet: "idle" | "matched"
                         \* (matching_calls built) | "touched" (last_packet_time
                         \* written, waiting for self.lock)
    rtp_call             \* index in calls of the call the packet was matched to

seg_vars == <<seg, segments, segment_counters, published, duration_threshold,
              base_seq, arrivals, calls, zmq_out, mono, call_event, ncall_events,
              rtp_pc, rtp_call>>

VARIABLES
    lifespan,            \* websocket.py: "startup" before the startup event of
                         \* the application has run, then "serving", and
                         \* "shutdown" after its shutdown event
    ZMQ_TASK,            \* None, or the task running _zmq_consume_loop:
                         \* "running", "failed" (left by an exception) or
                         \* "cancelled"; the last two are done()
    WS_BROADCAST_ALL,    \* the routing mode read from the environment
    LISTENING_CLIENTS,   \* client ids, in dict (insertion) order
    CLIENT_IP_MAPPING,   \* client id -> recorded ip
    inbox,               \* per client id ever connected: the messages sent to it
    nclients,            \* connections accepted so far; the n-th gets client id n
    ndispatch,           \* events handed to _dispatch_asr_event so far
    dispatch_pc,         \* "idle" | "gather": _dispatch_asr_event awaits its sends
    dispatch_evt,        \* the event being (or last) dispatched
    dispatch_tasks,      \* client ids of the send tasks created, in order
    handler,             \* per client id: its websocket_listening_endpoint is
                         \* "open" (in the receive loop) or "exited"
    removed_by,          \* per client id: what took it out of the registry
                         \* ("" while it has not been taken out)
    replies,             \* per client id: the replies sent to its messages
    client_msg,          \* the client message handled last: who sent it, what
                         \* it was and whether the reply could be sent
    nmsgs                \* client messages handled so far

ws_vars == <<lifespan, ZMQ_TASK, WS_BROADCAST_ALL, LISTENING_CLIENTS, CLIENT_IP_MAPPING, inbox,
             nclients, ndispatch, dispatch_pc, dispatch_evt, dispatch_tasks,
             handler, removed_by, replies, client_msg, nmsgs>>

VARIABLES
    pydantic_coerces,    \* the installed pydantic turns a number into a str field
    ticket_count,        \* requests POST /ticketGeneration handled so far
    ticket_req,          \* the request handled last
    ticket_body,         \* the body handed to send_test_request for it
    ticket_upstream,     \* what the upstream call came to
    ticket_status,       \* HTTP status returned to the caller
    ticket_resp          \* the 200 body, or the detail of the error

ticket_vars == <<pydantic_coerces, ticket_count, ticket_req, ticket_body,
                 ticket_upstream, ticket_status, ticket_resp>>

VARIABLES
    endpoints,           \* DeepSeekLoadBalancer.endpoints
    round_robin,         \* itertools.cycle: index of the endpoint yielded last
    health_status,       \* DeepSeekLoadBalancer.health_status
    request_count,       \* DeepSeekLoadBalancer.request_count
    error_count,         \* DeepSeekLoadBalancer.error_count
    lb_calls,            \* one record per get_next_endpoint call, in order
    summaries            \* one record per TicketSummarizer.summarize call: the
                         \* lb_calls it made (first .. last) and how it ended

lb_vars == <<endpoints, round_robin, health_status, request_count, error_count,
             lb_calls, summaries>>


VARIABLES
    pipe_metas,      \* the metadata of the segments the daemon received, in order
    pipe_sent,       \* the texts sent to a listening client, in order
    seg_log          \* per segment the daemon received, in order: what it was
                     \* (IsFinished, pcm_len, the text recognised in it) and
                     \* whether it passed the allow list

pipe_vars == <<pipe_metas, pipe_sent, seg_log>>

not_daemon_vars == <<seg_vars, ws_vars, ticket_vars, lb_vars, pipe_vars>>

not_seg_vars == <<daemon_vars, ws_vars, ticket_vars, lb_vars, pipe_vars>>

not_ws_vars == <<daemon_vars, seg_vars, ticket_vars, lb_vars, pipe_vars>>

not_ticket_vars == <<daemon_vars, seg_vars, ws_vars, lb_vars, pipe_vars>>

not_lb_vars == <<daemon_vars, seg_vars, ws_vars, ticket_vars, pipe_vars>>

not_pipe_vars == <<daemon_vars, seg_vars, ws_vars, ticket_vars, lb_vars>>

(* ------------------------------ heapq ---------------------------------- *)
\* PendingEvent is ordered on voice_start_ts alone (event, receive_time: compare=False)
PendingLess(a, b) == a.voice_start_ts < b.voice_start_ts

\* heapq._siftdown(heap, startpos, pos), positions 0-based as in heapq
RECURSIVE SiftDown(_, _, _, _)
SiftDown(heap, startpos, pos, newitem) ==
    IF pos > startpos
    THEN LET parentpos == (pos - 1) \div 2
             parent == heap[parentpos + 1]
         IN IF PendingLess(newitem, parent)
            THEN SiftDown([heap EXCEPT ![pos + 1] = parent], startpos, parentpos, newitem)
            ELSE [heap EXCEPT ![pos + 1] = newitem]
    ELSE [heap EXCEPT ![pos + 1] = newitem]

\* the while loop of heapq._siftup: bubble the smaller child up until a leaf
RECURSIVE SiftUpLoop(_, _, _)
SiftUpLoop(heap, pos, endpos) ==
    LET childpos == 2 * pos + 1
    IN IF childpos < endpos
       THEN LET rightpos == childpos + 1
                c == IF rightpos < endpos
                        /\ ~PendingLess(heap[childpos + 1], heap[rightpos + 1])
                     THEN rightpos ELSE childpos
            IN SiftUpLoop([heap EXCEPT ![pos + 1] = heap[c + 1]], c, endpos)
       ELSE <<heap, pos>>

\* heapq._siftup(heap, pos)
SiftUp(heap, pos) ==
    LET newitem == heap[pos + 1]
        r == SiftUpLoop(heap, pos, Len(heap))
    IN SiftDown(r[1], pos, r[2], newitem)

\* heapq.heappush(heap, item)
heappush(heap, item) ==
    LET h == Append(heap, item)
    IN SiftDown(h, 0, Len(h) - 1, item)

\* heapq.heappop(heap): <<returned item, heap afterwards>>
heappop(heap) ==
    LET lastelt == heap[Len(heap)]
        rest == SubSeq(heap, 1, Len(heap) - 1)
    IN IF rest # <<>>
       THEN <<rest[1], SiftUp([rest EXCEPT ![1] = lastelt], 0)>>
       ELSE <<lastelt, rest>>

(* ----------------------- EventQueueManager ----------------------------- *)
\* index of peer_ip in the queues dict, 0 when absent
RECURSIVE QIndexFrom(_, _, _)
QIndexFrom(qs, peer_ip, i) ==
    IF i > Len(qs) THEN 0
    ELSE IF qs[i].peer_ip = peer_ip THEN i
    ELSE QIndexFrom(qs, peer_ip, i + 1)

QIndex(qs, peer_ip) == QIndexFrom(qs, peer_ip, 1)

\* del self.queues[peer_ip]
QDelete(qs, peer_ip) ==
    LET i == QIndex(qs, peer_ip)
    IN IF i = 0 THEN qs
       ELSE SubSeq(qs, 1, i - 1) \o SubSeq(qs, i + 1, Len(qs))

\* del self.last_published[peer_ip]
LpDelete(lp, peer_ip) == [p \in (DOMAIN lp) \ {peer_ip} |-> lp[p]]

\* self.last_published[peer_ip] = v
LpSet(lp, peer_ip, v) == [p \in (DOMAIN lp) \cup {peer_ip} |-> IF p = peer_ip THEN v ELSE lp[p]]

\* self.last_published.get(peer_ip, 0)
LpGet(lp, peer_ip) == IF peer_ip \in DOMAIN lp THEN lp[peer_ip] ELSE 0

\* EventQueueManager.add_event; m = [queues, last_published, wire, wire_info, seg]
\* (seg: the number of the segment being handled, kept with the pending event
\* for wire_info only)
add_event(m, event, voice_start_ts, t) ==
    LET peer_ip == event.peer_ip
        pending == [voice_start_ts |-> voice_start_ts, event |-> event, receive_time |-> t,
                    seg |-> m.seg]
        qs == IF QIndex(m.queues, peer_ip) = 0
              THEN Append(m.queues, [peer_ip |-> peer_ip, heap |-> <<>>])
              ELSE m.queues
        i == QIndex(qs, peer_ip)
    IN [m EXCEPT !.queues = [qs EXCEPT ![i].heap = heappush(qs[i].heap, pending)]]

\* mutant of should_publish: the head of the heap is published at once
should_publish_always(earliest, last_pub_ts, current_time) == TRUE

\* mutant of should_publish: an event is let go a second before max_delay
should_publish_early(earliest, last_pub_ts, current_time) ==
    LET time_waiting == current_time - earliest.receive_time
    IN \/ earliest.voice_start_ts >= last_pub_ts
       \/ time_waiting >= MaxDelay - 1

\* the should_publish test of try_publish_ready_events
should_publish(earliest, last_pub_ts, current_time) ==
    LET time_waiting == current_time - earliest.receive_time
    IN \/ earliest.voice_start_ts >= last_pub_ts
       \/ time_waiting >= MaxDelay

\* the inner "while queue" loop of try_publish_ready_events for one peer
RECURSIVE DrainReady(_, _, _)
DrainReady(m, peer_ip, current_time) ==
    LET i == QIndex(m.queues, peer_ip)
        queue == m.queues[i].heap
    IN IF queue = <<>> THEN m
       ELSE LET earliest == queue[1]
            IN IF should_publish(earliest, LpGet(m.last_published, peer_ip), current_time)
               THEN DrainReady(
                      [m EXCEPT
                         !.queues = [m.queues EXCEPT ![i].heap = heappop(queue)[2]],
                         !.last_published = LpSet(m.last_published, peer_ip, earliest.voice_start_ts),
                         !.wire = Append(m.wire, earliest.event),
                         !.wire_info = Append(m.wire_info,
                             [by |-> "try_publish", recv |-> earliest.receive_time,
                              wait |-> current_time - earliest.receive_time,
                              seg |-> earliest.seg])],
                      peer_ip, current_time)
               ELSE m

\* the "for peer_ip, queue in list(self.queues.items())" loop
RECURSIVE TryPublishFrom(_, _, _, _)
TryPublishFrom(m, items, k, current_time) ==
    IF k > Len(items) THEN m
    ELSE LET peer_ip == items[k].peer_ip
             d == DrainReady(m, peer_ip, current_time)
             i == QIndex(d.queues, peer_ip)
             cleaned == IF d.queues[i].heap = <<>>
                        THEN [d EXCEPT !.queues = QDelete(d.queues, peer_ip)]
                        ELSE d
         IN IF m.queues[QIndex(m.queues, peer_ip)].heap = <<>>
            THEN TryPublishFrom(m, items, k + 1, current_time)
            ELSE TryPublishFrom(cleaned, items, k + 1, current_time)

\* EventQueueManager.try_publish_ready_events
try_publish_ready_events(m, current_time) == TryPublishFrom(m, m.queues, 1, current_time)

\* mutant of FlushHeap: every popped event is sent twice
RECURSIVE FlushHeap_twice(_, _, _, _, _)
FlushHeap_twice(heap, w, wi, by, t) ==
    IF heap = <<>> THEN <<w, wi>>
    ELSE LET r == heappop(heap)
             info == [by |-> by, recv |-> r[1].receive_time,
                      wait |-> t - r[1].receive_time, seg |-> r[1].seg]
         IN FlushHeap_twice(r[2], Append(Append(w, r[1].event), r[1].event),
                            Append(Append(wi, info), info), by, t)

\* "while queue: heappop, send_json" of flush_peer and flush_all
RECURSIVE FlushHeap(_, _, _, _, _)
FlushHeap(heap, w, wi, by, t) ==
    IF heap = <<>> THEN <<w, wi>>
    ELSE LET r == heappop(heap)
         IN FlushHeap(r[2], Append(w, r[1].event),
                      Append(wi, [by |-> by, recv |-> r[1].receive_time,
                                  wait |-> t - r[1].receive_time, seg |-> r[1].seg]), by, t)

\* mutant of flush_peer: the peer's heap is deleted without being published
flush_peer_unsent(m, peer_ip, t) ==
    [m EXCEPT !.queues = QDelete(m.queues, peer_ip),
              !.last_published = LpDelete(m.last_published, peer_ip)]

\* EventQueueManager.flush_peer
flush_peer(m, peer_ip, t) ==
    LET i == QIndex(m.queues, peer_ip)
    IN IF i # 0
       THEN LET f == FlushHeap(m.queues[i].heap, m.wire, m.wire_info, "flush_peer", t)
            IN [m EXCEPT !.queues = QDelete(m.queues, peer_ip),
                         !.last_published = LpDelete(m.last_published, peer_ip),
                         !.wire = f[1],
                         !.wire_info = f[2]]
       ELSE m

\* mutant of flush_all: the heaps are deleted without being published
flush_all_unsent(m, t) == [m EXCEPT !.queues = <<>>]

\* EventQueueManager.flush_all
RECURSIVE FlushAllFrom(_, _, _, _)
FlushAllFrom(m, items, k, t) ==
    IF k > Len(items) THEN m
    ELSE LET peer_ip == items[k].peer_ip
             i == QIndex(m.queues, peer_ip)
             f == FlushHeap(m.queues[i].heap, m.wire, m.wire_info, "flush_all", t)
         IN FlushAllFrom([m EXCEPT !.queues = QDelete(m.queues, peer_ip),
                                   !.wire = f[1], !.wire_info = f[2]],
                         items, k + 1, t)

flush_all(m, t) == FlushAllFrom(m, m.queues, 1, t)

(* ------------------------------ main ----------------------------------- *)
\* _load_allow_list(path): None when the file is missing or holds no IP
load_allow_list(file) ==
    IF file = Missing THEN NoneSet
    ELSE LET ips == {file[i] : i \in {j \in 1..Len(file) : file[j] # ""}}
         IN IF ips = {} THEN NoneSet ELSE ips

\* mutant of ip_not_allowed: the whitelist is never applied
ip_not_allowed_never(allow, peer_ip) == FALSE

\* the whitelist test of main: True when the segment is skipped
ip_not_allowed(allow, peer_ip) == allow # NoneSet /\ peer_ip \notin allow

\* chunk_start_ts = start_ts if start_ts is not None else 0
ChunkStartTs(start_ts) == IF start_ts # <<>> THEN start_ts[1] ELSE 0

\* voice_start_ts = chunk_start_ts + (vad_start_ms / 1000.0)
VoiceStartTs(chunk_start_ts, vad_start_ms) == chunk_start_ts + (vad_start_ms \div 1000)

\* mutant of AsrUpdateEvent: unique_key and ssrc change places
AsrUpdateEvent_swapped(txt, peer_ip, source, unique_key, ssrc, is_finished, start_ts, vad_start_ms) ==
    [type |-> "asr_update",
     text |-> txt,
     peer_ip |-> peer_ip,
     source |-> source,
     unique_key |-> ssrc,
     ssrc |-> unique_key,
     is_finished |-> is_finished,
     voice_start_ts |-> VoiceStartTs(ChunkStartTs(start_ts), vad_start_ms),
     chunk_start_ts |-> ChunkStartTs(start_ts),
     offset_ms |-> vad_start_ms]

\* the asr_update event built in main
AsrUpdateEvent(txt, peer_ip, source, unique_key, ssrc, is_finished, start_ts, vad_start_ms) ==
    [type |-> "asr_update",
     text |-> txt,
     peer_ip |-> peer_ip,
     source |-> source,
     unique_key |-> unique_key,
     ssrc |-> ssrc,
     is_finished |-> is_finished,
     voice_start_ts |-> VoiceStartTs(ChunkStartTs(start_ts), vad_start_ms),
     chunk_start_ts |-> ChunkStartTs(start_ts),
     offset_ms |-> vad_start_ms]

\* finish_evt of main
FinishEvent(peer_ip, source, unique_key, ssrc) ==
    [type |-> "call_finished",
     text |-> "",
     peer_ip |-> peer_ip,
     source |-> source,
     unique_key |-> unique_key,
     ssrc |-> ssrc,
     is_finished |-> TRUE]

EmptyCallState == [chunks |-> 0, bytes |-> 0, last_text |-> None]

CsSet(cs, key, v) == [k \in (DOMAIN cs) \cup {key} |-> IF k = key THEN v ELSE cs[k]]

\* _asr_generate_blocking: the recogniser's output rec, or NoAsr (Python None)
\* when the audio is empty or the recognised text is empty
NoAsr == [text |-> "", vad_start_ms |-> 0]

asr_generate_blocking(pcm_len, rec) ==
    IF pcm_len = 0 \/ rec.text = "" THEN NoAsr ELSE rec

\* "if pcm:" branch of main; r = [cs, m]; rec is what the model recognises
OnPcm(r, key, meta, pcm_len, rec, t) ==
    IF pcm_len = 0 THEN r
    ELSE LET st1 == [r.cs[key] EXCEPT !.chunks = @ + 1, !.bytes = @ + pcm_len]
             asr_result == asr_generate_blocking(pcm_len, rec)
         IN IF asr_result = NoAsr
            THEN [r EXCEPT !.cs = CsSet(r.cs, key, st1)]
            ELSE LET event == AsrUpdateEvent(asr_result.text, meta.peer_ip, meta.source,
                                             meta.unique_key, meta.ssrc, meta.IsFinished,
                                             meta.start_ts, asr_result.vad_start_ms)
                     added == add_event(r.m, event, event.voice_start_ts, t)
                 IN [cs |-> CsSet(r.cs, key, [st1 EXCEPT !.last_text = asr_result.text]),
                     m |-> try_publish_ready_events(added, t)]

\* mutant of OnFinished: call_finished is sent before the peer's heap is flushed
OnFinished_finish_first(r, key, meta, t) ==
    IF ~meta.IsFinished THEN r
    ELSE LET w == [r.m EXCEPT !.wire = Append(r.m.wire,
                                FinishEvent(meta.peer_ip, meta.source, meta.unique_key, meta.ssrc)),
                              !.wire_info = Append(r.m.wire_info,
                                [by |-> "main", recv |-> t, wait |-> 0, seg |-> r.m.seg])]
         IN [cs |-> CsSet(r.cs, key, EmptyCallState),
             m |-> flush_peer(w, meta.peer_ip, t)]

\* "if is_finished:" branch of main
OnFinished(r, key, meta, t) ==
    IF ~meta.IsFinished THEN r
    ELSE LET f == flush_peer(r.m, meta.peer_ip, t)
         IN [cs |-> CsSet(r.cs, key, EmptyCallState),
             m |-> [f EXCEPT !.wire = Append(f.wire,
                                FinishEvent(meta.peer_ip, meta.source, meta.unique_key, meta.ssrc)),
                             !.wire_info = Append(f.wire_info,
                                [by |-> "main", recv |-> t, wait |-> 0, seg |-> f.seg])]]

\* mutant of HandleSegment: a segment without audio is skipped altogether
HandleSegment_skip_empty(cs, m, allow, meta, pcm_len, rec, t) ==
    IF ip_not_allowed(allow, meta.peer_ip) \/ pcm_len = 0 THEN [cs |-> cs, m |-> m]
    ELSE LET key == <<meta.peer_ip, meta.source, meta.unique_key, meta.ssrc>>
             cs1 == IF key \in DOMAIN cs THEN cs ELSE CsSet(cs, key, EmptyCallState)
             r1 == OnPcm([cs |-> cs1, m |-> m], key, meta, pcm_len, rec, t)
         IN OnFinished(r1, key, meta, t)

\* one pass of the "while True" loop of main for a well-formed message
HandleSegment(cs, m, allow, meta, pcm_len, rec, t) ==
    IF ip_not_allowed(allow, meta.peer_ip) THEN [cs |-> cs, m |-> m]
    ELSE LET key == <<meta.peer_ip, meta.source, meta.unique_key, meta.ssrc>>
             cs1 == IF key \in DOMAIN cs THEN cs ELSE CsSet(cs, key, EmptyCallState)
             r1 == OnPcm([cs |-> cs1, m |-> m], key, meta, pcm_len, rec, t)
         IN OnFinished(r1, key, meta, t)

Mgr == [queues |-> queues, last_published |-> last_published,
        wire |-> wire, wire_info |-> wire_info, seg |-> nsegs + 1]

Metas == {[peer_ip |-> c[1], source |-> c[2], unique_key |-> c[3], ssrc |-> c[4],
           start_ts |-> s, IsFinished |-> f] : c \in CallIds, s \in StartTsSet, f \in BOOLEAN}
PcmLens == {0, 320}
\* what asr_funasr_model.generate recognises in a segment
Recognised == {NoAsr} \cup [text : {"hello"}, vad_start_ms : VadMsSet]

DaemonInitWith(files) ==
    /\ allow_file \in files
    /\ allow_ips = load_allow_list(allow_file)
    /\ call_state = <<>>
    /\ queues = <<>>
    /\ last_published = <<>>
    /\ wire = <<>>
    /\ wire_info = <<>>
    /\ now = 0
    /\ nsegs = 0
    /\ last_peer = None
    /\ daemon_pc = "running"

\* one pass of the loop of main for the segment (meta, pcm_len, rec): what it
\* does to the daemon
SegmentOf(meta, pcm_len, rec) ==
    \* an empty pcm is never handed to the recogniser
    /\ pcm_len = 0 => rec = NoAsr
    /\ LET r == HandleSegment(call_state, Mgr, allow_ips, meta, pcm_len, rec, now)
       IN /\ call_state' = r.cs
          /\ queues' = r.m.queues
          /\ last_published' = r.m.last_published
          /\ wire' = r.m.wire
          /\ wire_info' = r.m.wire_info
          /\ last_peer' = meta.peer_ip
    /\ nsegs' = nsegs + 1
    /\ UNCHANGED <<allow_file, allow_ips, now, daemon_pc>>

\* pull_sock.recv_multipart() returns a segment and main handles it
Segment ==
    /\ daemon_pc = "running"
    /\ nsegs < MaxSegs
    /\ \E meta \in Metas, pcm_len \in PcmLens, rec \in Recognised :
         SegmentOf(meta, pcm_len, rec)
    /\ UNCHANGED not_daemon_vars

\* the segments of two calls, one from each of two addresses
LoggedMetas == {meta \in Metas : meta.source = "citizen"}

\* the same pass of the loop, with the segment written down in seg_log
SegmentLogged ==
    /\ daemon_pc = "running"
    /\ nsegs < MaxSegs
    /\ \E meta \in LoggedMetas, pcm_len \in PcmLens, rec \in Recognised :
         /\ SegmentOf(meta, pcm_len, rec)
         /\ seg_log' = Append(seg_log, [meta |-> meta, pcm_len |-> pcm_len,
                                        text |-> rec.text])
    /\ UNCHANGED <<pipe_metas, pipe_sent>>
    /\ UNCHANGED <<seg_vars, ws_vars, ticket_vars, lb_vars>>

\* segments of two peers whose start_ts take three values
TimedMetas == {meta \in [peer_ip : {"10.0.0.1", "10.0.0.2"}, source : {"citizen"},
                         unique_key : {"u1"}, ssrc : {7},
                         start_ts : {<<1>>, <<2>>, <<3>>}, IsFinished : BOOLEAN] : TRUE}

\* the same pass of the loop for a segment with audio of TimedMetas
SegmentTimed ==
    /\ daemon_pc = "running"
    /\ nsegs < MaxSegs
    /\ \E meta \in TimedMetas, rec \in Recognised : SegmentOf(meta, 320, rec)
    /\ UNCHANGED not_daemon_vars

\* a second passes while main is blocked in recv_multipart.  The clock is only
\* ever read as a difference to the receive_time of a held event, so the
\* seconds that pass while no event is held are not counted.
Tick ==
    /\ daemon_pc = "running"
    /\ queues # <<>>
    /\ now < MaxTime
    /\ now' = now + 1
    /\ UNCHANGED <<allow_file, allow_ips, call_state, queues, last_published,
                   wire, wire_info, nsegs, last_peer, daemon_pc>>
    /\ UNCHANGED not_daemon_vars

\* KeyboardInterrupt: the finally block of main
Shutdown ==
    /\ daemon_pc = "running"
    /\ LET m == flush_all(Mgr, now)
       IN /\ queues' = m.queues
          /\ last_published' = m.last_published
          /\ wire' = m.wire
          /\ wire_info' = m.wire_info
    /\ daemon_pc' = "exited"
    /\ UNCHANGED <<allow_file, allow_ips, call_state, now, nsegs, last_peer>>
    /\ UNCHANGED not_daemon_vars

(* ============ listen_and_build_voice_stream.py: VoiceSegment ============ *)
(* A byte string is kept run-length encoded: a sequence of runs [n, b],     *)
(* n > 0 bytes of value b, no two neighbouring runs of the same value.  Two *)
(* byte strings are equal exactly when their encodings are.                 *)

\* bytes([0xFF] * n): the u-law silence byte
SilenceByte == 255

\* (x) & 0xFFFF
SeqMask == 65535

\* old_seq < self.last_processed_seq - 100
OldSeqWindow == 100

\* len(rtp_payload) < 160: the shortest payload the capture accepts
PayloadLen == 160

\* samples_received / 8000.0
SampleRate == 8000

\* VoiceStreamCapture(duration_threshold = 2.0)
DefaultDurationSec == 2

\* number of packets of the call
NPkts == 4

\* number of packet deliveries
MaxArrivals == 4

\* a short threshold (--duration), so that a segment fills within MaxArrivals
ShortThresholdPkts == 3

NoBytes == <<>>

AppendRun(buf, r) ==
    IF r.n = 0 THEN buf
    ELSE IF buf # <<>> /\ buf[Len(buf)].b = r.b
         THEN [buf EXCEPT ![Len(buf)].n = @ + r.n]
         ELSE Append(buf, r)

\* bytearray.extend
RECURSIVE Extend(_, _)
Extend(buf, bs) ==
    IF bs = <<>> THEN buf ELSE Extend(AppendRun(buf, Head(bs)), Tail(bs))

\* len(bytes)
RECURSIVE ByteLen(_)
ByteLen(bs) == IF bs = <<>> THEN 0 ELSE Head(bs).n + ByteLen(Tail(bs))

\* sum(1 for b in bs if b != 0xFF)
RECURSIVE NonSilenceCount(_)
NonSilenceCount(bs) ==
    IF bs = <<>> THEN 0
    ELSE (IF Head(bs).b # SilenceByte THEN Head(bs).n ELSE 0) + NonSilenceCount(Tail(bs))

\* bytes([0xFF] * n)
SilenceBytes(n) == IF n = 0 THEN NoBytes ELSE <<[n |-> n, b |-> SilenceByte]>>

\* for _ in range(gap): self.buffer.extend(silence_payload)
ExtendSilence(buf, gap, n) == Extend(buf, SilenceBytes(gap * n))

\* VoiceSegment.__init__; last_seq and last_processed_seq: <<>> is None
VoiceSegmentNew(sequence) ==
    [sequence |-> sequence, buffer |-> NoBytes, samples_received |-> 0,
     last_seq |-> <<>>, packet_buffer |-> <<>>, last_processed_seq |-> <<>>,
     silence_packets |-> 0, non_silence_packets |-> 0,
     discontinuities |-> 0, max_seq_gap |-> 0]

Max(a, b) == IF a >= b THEN a ELSE b

\* VoiceSegment._process_packet
process_packet(sg, payload, seq) ==
    LET gap == IF sg.last_seq # <<>>
               THEN (seq - sg.last_seq[1] - 1) % (SeqMask + 1) ELSE 0
        gapped == IF gap > 0
                  THEN [sg EXCEPT !.discontinuities = @ + 1,
                                  !.max_seq_gap = Max(@, gap),
                                  !.buffer = ExtendSilence(@, gap, ByteLen(payload))]
                  ELSE sg
        is_silence == NonSilenceCount(payload) = 0
    IN [gapped EXCEPT !.silence_packets = IF is_silence THEN @ + 1 ELSE @,
                      !.non_silence_packets = IF is_silence THEN @ ELSE @ + 1,
                      !.buffer = Extend(@, payload),
                      !.samples_received = @ + ByteLen(payload),
                      !.last_seq = <<seq>>]

PbSet(pb, seq, payload) ==
    [s \in (DOMAIN pb) \cup {seq} |-> IF s = seq THEN payload ELSE pb[s]]

PbDrop(pb, seqs) == [s \in (DOMAIN pb) \ seqs |-> pb[s]]

\* add_packet: while next_seq in self.packet_buffer
RECURSIVE ProcessSequential(_, _)
ProcessSequential(sg, next_seq) ==
    IF next_seq \in DOMAIN sg.packet_buffer
    THEN LET payload == sg.packet_buffer[next_seq]
             popped == [sg EXCEPT !.packet_buffer = PbDrop(@, {next_seq})]
             done == process_packet(popped, payload, next_seq)
         IN ProcessSequential([done EXCEPT !.last_processed_seq = <<next_seq>>],
                              next_seq + 1)
    ELSE sg

\* add_packet: clean old packets from buffer
CleanOld(sg) ==
    LET old == {s \in DOMAIN sg.packet_buffer :
                    s < sg.last_processed_seq[1] - OldSeqWindow}
    IN [sg EXCEPT !.packet_buffer = PbDrop(@, old),
                  !.discontinuities = @ + Cardinality(old)]

\* mutant of add_packet: every payload is appended as it arrives
add_packet_unordered(sg, payload, seq) ==
    [process_packet(sg, payload, seq) EXCEPT !.last_processed_seq = <<seq>>]

\* VoiceSegment.add_packet
add_packet(sg, payload, seq) ==
    LET stored == [sg EXCEPT !.packet_buffer = PbSet(@, seq, payload)]
        started == IF stored.last_processed_seq = <<>>
                   THEN [stored EXCEPT !.last_processed_seq = <<seq - 1>>]
                   ELSE stored
    IN CleanOld(ProcessSequential(started, started.last_processed_seq[1] + 1))

(* ----------------- VoiceStreamCapture, one active call ------------------ *)
\* the one active outgoing call the packets belong to
CallId == "call-1"

BaseSeqs == {1000, 65534}

\* rtp.sequence_number of the call's k-th packet (16 bits)
SeqOf(base, k) == (base + k) % (SeqMask + 1)

\* rtp_payload of the call's k-th packet: PayloadLen bytes, each packet its
\* own byte value; the last packet is below 10% non-silence
PayloadOf(k) ==
    IF k = NPkts - 1
    THEN <<[n |-> PayloadLen - 10, b |-> SilenceByte], [n |-> 10, b |-> 9]>>
    ELSE <<[n |-> PayloadLen, b |-> k + 1]>>

\* self.segment_counters[call_id] of a defaultdict(int)
CounterGet(counters, call_id) ==
    IF call_id \in DOMAIN counters THEN counters[call_id] ELSE 0

FnSet(f, k, v) == [x \in (DOMAIN f) \cup {k} |-> IF x = k THEN v ELSE f[x]]

\* the capture's segment state as one record
Capture == [segments |-> segments, segment_counters |-> segment_counters,
            published |-> published]

\* mutant of publish_current_segment: the published segment stays open
publish_current_segment_kept(c, call_id, threshold) ==
    IF call_id \notin DOMAIN c.segments THEN c
    ELSE LET segment == c.segments[call_id]
             sequence == CounterGet(c.segment_counters, call_id)
         IN IF segment.samples_received >= threshold
            THEN [c EXCEPT !.published = Append(@, [call_id |-> call_id,
                                                    sequence |-> sequence,
                                                    bytes |-> segment.buffer,
                                                    samples |-> segment.samples_received]),
                           !.segment_counters = FnSet(@, call_id, sequence + 1)]
            ELSE c

\* mutant of publish_current_segment: the counter is not incremented
publish_current_segment_samenumber(c, call_id, threshold) ==
    IF call_id \notin DOMAIN c.segments THEN c
    ELSE LET segment == c.segments[call_id]
             sequence == CounterGet(c.segment_counters, call_id)
         IN IF segment.samples_received >= threshold
            THEN [c EXCEPT !.published = Append(@, [call_id |-> call_id,
                                                    sequence |-> sequence,
                                                    bytes |-> segment.buffer,
                                                    samples |-> segment.samples_received]),
                           !.segments = FnSet(@, call_id, VoiceSegmentNew(sequence))]
            ELSE c

\* VoiceStreamCapture.publish_current_segment; threshold in samples
publish_current_segment(c, call_id, threshold) ==
    IF call_id \notin DOMAIN c.segments THEN c
    ELSE LET segment == c.segments[call_id]
             sequence == CounterGet(c.segment_counters, call_id)
         IN IF segment.samples_received >= threshold
            THEN [published |-> Append(c.published,
                                       [call_id |-> call_id, sequence |-> sequence,
                                        bytes |-> segment.buffer,
                                        samples |-> segment.samples_received]),
                  segment_counters |-> FnSet(c.segment_counters, call_id, sequence + 1),
                  segments |-> FnSet(c.segments, call_id, VoiceSegmentNew(sequence + 1))]
            ELSE c

\* packet_callback for an RTP packet of the one matching active outgoing call
packet_callback_rtp(c, call_id, rtp_payload, threshold) ==
    IF ByteLen(rtp_payload) < PayloadLen THEN c
    ELSE IF NonSilenceCount(rtp_payload) * 10 >= ByteLen(rtp_payload)
    THEN LET created == IF call_id \notin DOMAIN c.segments
                        THEN FnSet(c.segments, call_id,
                                   VoiceSegmentNew(CounterGet(c.segment_counters, call_id)))
                        ELSE c.segments
             segment == created[call_id]
             added == [segment EXCEPT !.buffer = Extend(@, rtp_payload),
                                      !.samples_received = @ + ByteLen(rtp_payload)]
         IN publish_current_segment([c EXCEPT !.segments = FnSet(created, call_id, added)],
                                    call_id, threshold)
    ELSE c

(* ====== listen_and_build_voice_stream.py: calls, BYE and timeouts ====== *)
\* check_call_timeouts: "if current_time - call_info.last_packet_time >= 30"
CallTimeoutSec == 30

\* SIP and RTP packets captured in one run
MaxCallEvents == 4

\* last second of the monotonic clock
MaxMono == 32

\* self.server_ip
ServerIp == "100.120.241.10"

\* the Call-IDs of the SIP dialogs and the addresses packets come from
SipCallIds == {"call-1", "call-2"}

PacketIps == {"10.0.0.1", ServerIp}

\* index of call_id in the calls dict, 0 when it is not a key
RECURSIVE CallIndexFrom(_, _, _)
CallIndexFrom(cs, call_id, i) ==
    IF i > Len(cs) THEN 0
    ELSE IF cs[i].call_id = call_id THEN i
    ELSE CallIndexFrom(cs, call_id, i + 1)

CallIndex(cs, call_id) == CallIndexFrom(cs, call_id, 1)

\* CallInfo(call_id, from_ip, start_time, last_packet_time), is_active = True
CallInfo(call_id, from_ip, t) ==
    [call_id |-> call_id, from_ip |-> from_ip, start_time |-> t,
     last_packet_time |-> t, is_active |-> TRUE, call_direction |-> "outgoing"]

\* the capture with its call table and publisher as one record
CaptureCalls == [segments |-> segments, segment_counters |-> segment_counters,
                 published |-> published, calls |-> calls, zmq_out |-> zmq_out]

\* the segment part of the record, as publish_current_segment takes it
SegmentsOf(k) == [segments |-> k.segments, segment_counters |-> k.segment_counters,
                  published |-> k.published]

\* publisher.publish_segment: the message sent for a published segment
VoiceSegmentMsg(p) == [type |-> "voice_segment", call_id |-> p.call_id,
                       sequence |-> p.sequence, samples |-> p.samples]

\* publisher.publish_call_end: the message sent
CallEndMsg(call_id) == [type |-> "call_end", call_id |-> call_id,
                        sequence |-> 0, samples |-> 0]

\* the capture k after the segment code took its segment part to c: what c
\* published beyond k goes out on the socket
WithSegments(k, c) ==
    [k EXCEPT !.segments = c.segments,
              !.segment_counters = c.segment_counters,
              !.published = c.published,
              !.zmq_out = @ \o [i \in 1..(Len(c.published) - Len(k.published)) |->
                                  VoiceSegmentMsg(c.published[Len(k.published) + i])]]

\* the end of call k.calls[i], as in process_sip_packet (BYE) and in
\* check_call_timeouts: is_active = False, publish_current_segment if the
\* call has a segment, publish_call_end
end_call(k, i, threshold) ==
    LET call_id == k.calls[i].call_id
        k1 == [k EXCEPT !.calls[i].is_active = FALSE]
        k2 == IF call_id \in DOMAIN k.segments
              THEN WithSegments(k1, publish_current_segment(SegmentsOf(k1), call_id, threshold))
              ELSE k1
    IN [k2 EXCEPT !.zmq_out = Append(@, CallEndMsg(call_id))]

\* process_sip_packet for an INVITE request
sip_invite(k, call_id, src_ip, t) ==
    IF CallIndex(k.calls, call_id) = 0 /\ src_ip # ServerIp
    THEN [k EXCEPT !.calls = Append(@, CallInfo(call_id, src_ip, t))]
    ELSE k

\* process_sip_packet for a BYE request
sip_bye(k, call_id, threshold) ==
    LET i == CallIndex(k.calls, call_id)
    IN IF i # 0 /\ k.calls[i].call_direction = "outgoing"
       THEN end_call(k, i, threshold)
       ELSE k

\* mutant of matching_calls: the search stops at the first match
matching_calls_first(cs, src_ip) ==
    LET m == {i \in 1..Len(cs) : /\ src_ip = cs[i].from_ip
                                 /\ cs[i].is_active
                                 /\ cs[i].call_direction = "outgoing"}
    IN {i \in m : \A j \in m : i <= j}

\* packet_callback: matching_calls, as indices into the calls dict
matching_calls(cs, src_ip) ==
    {i \in 1..Len(cs) : /\ src_ip = cs[i].from_ip
                        /\ cs[i].is_active
                        /\ cs[i].call_direction = "outgoing"}

\* packet_callback for an RTP packet from src_ip
rtp_packet(k, src_ip, rtp_payload, threshold, t) ==
    LET m == matching_calls(k.calls, src_ip)
    IN IF ByteLen(rtp_payload) < PayloadLen \/ Cardinality(m) # 1 THEN k
       ELSE LET i == CHOOSE x \in m : TRUE
                k1 == [k EXCEPT !.calls[i].last_packet_time = t]
            IN WithSegments(k1, packet_callback_rtp(SegmentsOf(k1), k.calls[i].call_id,
                                                    rtp_payload, threshold))

\* the "for call_id, call_info in list(self.calls.items())" loop of
\* check_call_timeouts, from the i-th call on
RECURSIVE TimeoutsFrom(_, _, _, _)
TimeoutsFrom(k, i, current_time, threshold) ==
    IF i > Len(k.calls) THEN k
    ELSE LET call_info == k.calls[i]
             timed_out == /\ call_info.is_active
                          /\ call_info.call_direction = "outgoing"
                          /\ current_time - call_info.last_packet_time >= CallTimeoutSec
         IN TimeoutsFrom(IF timed_out THEN end_call(k, i, threshold) ELSE k,
                         i + 1, current_time, threshold)

NoCallEvent == [kind |-> "none", call_id |-> "", src_ip |-> ""]

CallsIdle ==
    /\ calls = <<>>
    /\ zmq_out = <<>>
    /\ mono = 0
    /\ call_event = NoCallEvent
    /\ ncall_events = 0
    /\ rtp_pc = "idle"
    /\ rtp_call = 0

\* the capture's variables take the values of record k
CaptureBecomes(k) ==
    /\ segments' = k.segments
    /\ segment_counters' = k.segment_counters
    /\ published' = k.published
    /\ calls' = k.calls
    /\ zmq_out' = k.zmq_out

\* packet_callback for a SIP INVITE
SipInvite ==
    /\ ncall_events < MaxCallEvents
    /\ rtp_pc = "idle"
    /\ \E call_id \in SipCallIds, src_ip \in PacketIps :
         /\ CaptureBecomes(sip_invite(CaptureCalls, call_id, src_ip, mono))
         /\ call_event' = [kind |-> "invite", call_id |-> call_id, src_ip |-> src_ip]
    /\ ncall_events' = ncall_events + 1
    /\ UNCHANGED <<mono, seg, duration_threshold, base_seq, arrivals, rtp_pc, rtp_call>>
    /\ UNCHANGED not_seg_vars

\* packet_callback for a SIP BYE
SipBye ==
    /\ ncall_events < MaxCallEvents
    /\ rtp_pc = "idle"
    /\ \E call_id \in SipCallIds :
         /\ CaptureBecomes(sip_bye(CaptureCalls, call_id, duration_threshold))
         /\ call_event' = [kind |-> "bye", call_id |-> call_id, src_ip |-> ""]
    /\ ncall_events' = ncall_events + 1
    /\ UNCHANGED <<mono, seg, duration_threshold, base_seq, arrivals, rtp_pc, rtp_call>>
    /\ UNCHANGED not_seg_vars

\* packet_callback for an RTP packet with a voiced payload
RtpPacket ==
    /\ ncall_events < MaxCallEvents
    /\ rtp_pc = "idle"
    /\ \E src_ip \in PacketIps :
         /\ CaptureBecomes(rtp_packet(CaptureCalls, src_ip, PayloadOf(0),
                                      duration_threshold, mono))
         /\ call_event' = [kind |-> "rtp", call_id |-> "", src_ip |-> src_ip]
    /\ ncall_events' = ncall_events + 1
    /\ UNCHANGED <<mono, seg, duration_threshold, base_seq, arrivals, rtp_pc, rtp_call>>
    /\ UNCHANGED not_seg_vars

\* one round of the loop of check_call_timeouts: the check, then
\* time.sleep(1).  The seconds that pass while no call is active are not
\* counted.
CheckCallTimeouts ==
    /\ mono < MaxMono
    /\ \E i \in 1..Len(calls) : calls[i].is_active
    /\ CaptureBecomes(TimeoutsFrom(CaptureCalls, 1, mono, duration_threshold))
    /\ call_event' = [kind |-> "check", call_id |-> "", src_ip |-> ""]
    /\ mono' = mono + 1
    /\ UNCHANGED <<ncall_events, seg, duration_threshold, base_seq, arrivals,
                   rtp_pc, rtp_call>>
    /\ UNCHANGED not_seg_vars

(* -- packet_callback on an RTP packet, step by step, beside the timeout -- *)
(* thread.  Lines 485-500 run without self.lock; only 501-517 hold it.     *)
\* lines 485-495: matching_calls is built from is_active, read without the lock
RtpMatch ==
    /\ ncall_events < MaxCallEvents
    /\ rtp_pc = "idle"
    /\ \E src_ip \in PacketIps :
         LET m == matching_calls(calls, src_ip)
         IN /\ call_event' = [kind |-> "rtp", call_id |-> "", src_ip |-> src_ip]
            /\ IF Cardinality(m) = 1
               THEN /\ rtp_pc' = "matched"
                    /\ rtp_call' = CHOOSE x \in m : TRUE
               ELSE UNCHANGED <<rtp_pc, rtp_call>>
    /\ ncall_events' = ncall_events + 1
    /\ UNCHANGED <<segments, segment_counters, published, calls, zmq_out, mono,
                   seg, duration_threshold, base_seq, arrivals>>
    /\ UNCHANGED not_seg_vars

\* lines 496-500: last_packet_time is written without the lock; the payload
\* is voiced, so the thread goes on to "with self.lock"
RtpTouch ==
    /\ rtp_pc = "matched"
    /\ calls' = [calls EXCEPT ![rtp_call].last_packet_time = mono]
    /\ rtp_pc' = "touched"
    /\ UNCHANGED <<segments, segment_counters, published, zmq_out, mono, call_event,
                   ncall_events, rtp_call, seg, duration_threshold, base_seq, arrivals>>
    /\ UNCHANGED not_seg_vars

\* lines 501-517, under the lock: the segment is created if needed, the
\* payload appended, publish_current_segment called
RtpAppend ==
    /\ rtp_pc = "touched"
    /\ CaptureBecomes(WithSegments(CaptureCalls,
                                   packet_callback_rtp(Capture, calls[rtp_call].call_id,
                                                       PayloadOf(0), duration_threshold)))
    /\ rtp_pc' = "idle"
    /\ call_event' = [kind |-> "append", call_id |-> calls[rtp_call].call_id,
                      src_ip |-> calls[rtp_call].from_ip]
    /\ UNCHANGED <<mono, ncall_events, rtp_call, seg, duration_threshold, base_seq,
                   arrivals>>
    /\ UNCHANGED not_seg_vars

SegInitWith(bases, thresholds) ==
    /\ seg = VoiceSegmentNew(0)
    /\ segments = <<>>
    /\ segment_counters = <<>>
    /\ published = <<>>
    /\ duration_threshold \in thresholds
    /\ base_seq \in bases
    /\ arrivals = <<>>
    /\ CallsIdle

\* the capture before any packet: default threshold
SegIdle == SegInitWith({1000}, {DefaultDurationSec * SampleRate})

\* an RTP packet of the call arrives (any of its packets, again or for the
\* first time): the capture handles it in packet_callback, and the same packet
\* is fed to a VoiceSegment through add_packet
DeliverPacket ==
    /\ Len(arrivals) < MaxArrivals
    /\ \E k \in 0 .. NPkts - 1 :
         /\ seg' = add_packet(seg, PayloadOf(k), SeqOf(base_seq, k))
         /\ LET c == packet_callback_rtp(Capture, CallId, PayloadOf(k), duration_threshold)
            IN /\ segments' = c.segments
               /\ segment_counters' = c.segment_counters
               /\ published' = c.published
         /\ arrivals' = Append(arrivals, k)
    /\ UNCHANGED <<duration_threshold, base_seq, calls, zmq_out, mono, call_event,
                   ncall_events, rtp_pc, rtp_call>>
    /\ UNCHANGED not_seg_vars

(* ================== websocket-server/websocket.py ======================= *)
\* connections accepted
MaxClients == 2

\* events dispatched
MaxDispatch == 2

\* text frames the clients send in one run
MaxClientMsgs == 2

\* connections accepted in a run in which the clients send text frames
MaxListeners == 1

\* a key that a dict does not hold, an attribute that is not set
Absent == "<absent>"

Unknown == "unknown"

\* values of the WS_BROADCAST_ALL environment variable, stripped and lowered
EnvValues == {"0", "1", "true", "yes", "on", "false"}

\* WS_BROADCAST_ALL = os.getenv(...).strip().lower() in {"1", "true", "yes", "on"}
broadcast_flag(env) == env \in {"1", "true", "yes", "on"}

\* A header value is a sequence of tokens: "," and " " and address tokens
NoHeader == [present |-> FALSE, tokens |-> <<>>]

Hdr(tokens) == [present |-> TRUE, tokens |-> tokens]

\* value.split(",")[0]
RECURSIVE FirstItem(_)
FirstItem(tokens) ==
    IF tokens = <<>> \/ Head(tokens) = "," THEN <<>>
    ELSE <<Head(tokens)>> \o FirstItem(Tail(tokens))

RECURSIVE LStrip(_)
LStrip(tokens) ==
    IF tokens # <<>> /\ Head(tokens) = " " THEN LStrip(Tail(tokens)) ELSE tokens

RECURSIVE RStrip(_)
RStrip(tokens) ==
    IF tokens # <<>> /\ tokens[Len(tokens)] = " "
    THEN RStrip(SubSeq(tokens, 1, Len(tokens) - 1)) ELSE tokens

\* str.strip()
Strip(tokens) == RStrip(LStrip(tokens))

\* the string of a stripped item: its one token, "" when none is left
Join(tokens) == IF tokens = <<>> THEN "" ELSE tokens[1]

\* the handshakes a client may present
Handshakes ==
    {[xff |-> NoHeader, xri |-> NoHeader, xci |-> NoHeader, host |-> "10.0.0.1"],
     [xff |-> Hdr(<<"10.0.0.2", ",", " ", "172.16.0.1">>), xri |-> NoHeader,
      xci |-> NoHeader, host |-> "172.16.0.9"],
     [xff |-> Hdr(<<>>), xri |-> Hdr(<<" ", "10.0.0.1", " ">>),
      xci |-> NoHeader, host |-> "172.16.0.9"],
     [xff |-> NoHeader, xri |-> NoHeader, xci |-> NoHeader, host |-> Absent]}

\* the handshake without proxy headers, from the peer's address
DirectHandshakes ==
    {[xff |-> NoHeader, xri |-> NoHeader, xci |-> NoHeader, host |-> "10.0.0.1"]}

\* _client_ip_from_ws
client_ip_from_ws(websocket) ==
    LET hs == <<websocket.xff, websocket.xri, websocket.xci>>
        set == {i \in 1..3 : hs[i].present /\ hs[i].tokens # <<>>}
    IN IF set # {}
       THEN LET i == CHOOSE x \in set : \A y \in set : x <= y
            IN Join(Strip(FirstItem(hs[i].tokens)))
       ELSE IF websocket.host # Absent THEN websocket.host
       ELSE Unknown

\* the events the SUB socket may deliver: dicts with or without 'type' and
\* 'peer_ip'; peer_ip may be null (None) or empty
WsEvents == [type : {"asr_update", Absent},
             peer_ip : {Absent, None, "", "10.0.0.1", "10.0.0.2"}]

SeqRange(sq) == {sq[i] : i \in 1..Len(sq)}

RECURSIVE SeqFilter(_, _)
SeqFilter(sq, keep) ==
    IF sq = <<>> THEN <<>>
    ELSE (IF Head(sq) \in keep THEN <<Head(sq)>> ELSE <<>>) \o SeqFilter(Tail(sq), keep)

\* target_ip = peer_ip if peer_ip else 'unknown'
target_ip(peer_ip) == IF peer_ip \in {None, ""} THEN Unknown ELSE peer_ip

target_clients_any(clients, mapping, evt, broadcast) == clients

\* _dispatch_asr_event: the clients a send task is created for
target_clients(clients, mapping, evt, broadcast) ==
    IF broadcast THEN clients
    ELSE SeqFilter(clients, {cid \in SeqRange(clients) :
                                 mapping[cid] = target_ip(evt.peer_ip)})

\* the text frames a client may send: JSON objects with a type, with another
\* type or with none, JSON that is not an object, and text that is not JSON
ClientTexts == {[json |-> "object", type |-> "ping"],
                [json |-> "object", type |-> "stop_listening"],
                [json |-> "object", type |-> Absent],
                [json |-> "array", type |-> Absent],
                [json |-> "invalid", type |-> Absent]}

NoClientMsg == [cid |-> 0, text |-> [json |-> "invalid", type |-> Absent], send_ok |-> TRUE]

\* the module as loaded: no client, no event
WSLoaded(envs) ==
    /\ \E env \in envs : WS_BROADCAST_ALL = broadcast_flag(env)
    /\ LISTENING_CLIENTS = <<>>
    /\ CLIENT_IP_MAPPING = <<>>
    /\ inbox = <<>>
    /\ nclients = 0
    /\ ndispatch = 0
    /\ dispatch_pc = "idle"
    /\ dispatch_evt = [type |-> Absent, peer_ip |-> Absent]
    /\ dispatch_tasks = <<>>
    /\ handler = <<>>
    /\ removed_by = <<>>
    /\ replies = <<>>
    /\ client_msg = NoClientMsg
    /\ nmsgs = 0

\* the server once startup_event has started the consume task
WSInitWith(envs) ==
    /\ WSLoaded(envs)
    /\ lifespan = "serving"
    /\ ZMQ_TASK = "running"

\* the server before startup_event
WSStarting(envs) ==
    /\ WSLoaded(envs)
    /\ lifespan = "startup"
    /\ ZMQ_TASK = None

\* the server with WS_BROADCAST_ALL unset, no client yet
WSIdle == WSInitWith({"0"})

\* websocket_listening_endpoint up to its receive loop, for a handshake of
\* the set handshakes, while fewer than max connections were accepted
ConnectWith(handshakes, max) ==
    /\ lifespan = "serving"
    /\ nclients < max
    /\ \E websocket \in handshakes :
         LET client_id == nclients + 1
         IN /\ LISTENING_CLIENTS' = Append(LISTENING_CLIENTS, client_id)
            /\ CLIENT_IP_MAPPING' = FnSet(CLIENT_IP_MAPPING, client_id,
                                          client_ip_from_ws(websocket))
            /\ inbox' = FnSet(inbox, client_id, <<>>)
            /\ handler' = FnSet(handler, client_id, "open")
            /\ removed_by' = FnSet(removed_by, client_id, "")
            /\ replies' = FnSet(replies, client_id, <<>>)
    /\ nclients' = nclients + 1
    /\ UNCHANGED <<lifespan, ZMQ_TASK, WS_BROADCAST_ALL, ndispatch, dispatch_pc, dispatch_evt, dispatch_tasks,
                   client_msg, nmsgs>>
    /\ UNCHANGED not_ws_vars

\* a client connects with any handshake
Connect == ConnectWith(Handshakes, MaxClients)

\* a client connects directly, without proxy headers
ConnectDirect == ConnectWith(DirectHandshakes, MaxListeners)

\* mutant of Pop: the clients stay in both maps
Pop_kept(cids, cause) ==
    /\ UNCHANGED <<LISTENING_CLIENTS, CLIENT_IP_MAPPING>>
    /\ removed_by' = [cid \in DOMAIN removed_by |->
                        IF cid \in cids /\ removed_by[cid] = "" THEN cause
                        ELSE removed_by[cid]]

\* LISTENING_CLIENTS.pop(cid, None); CLIENT_IP_MAPPING.pop(cid, None) for the
\* client ids in cids, because of cause
Pop(cids, cause) ==
    /\ LISTENING_CLIENTS' = SeqFilter(LISTENING_CLIENTS, SeqRange(LISTENING_CLIENTS) \ cids)
    /\ CLIENT_IP_MAPPING' = PbDrop(CLIENT_IP_MAPPING, cids)
    /\ removed_by' = [cid \in DOMAIN removed_by |->
                        IF cid \in cids /\ removed_by[cid] = "" THEN cause
                        ELSE removed_by[cid]]

\* the receive loop of client_id is left and the finally block runs
HandlerExit(client_id, cause) ==
    /\ handler' = [handler EXCEPT ![client_id] = "exited"]
    /\ Pop({client_id}, cause)

\* websocket_listening_endpoint: receive_text raises WebSocketDisconnect
Disconnect ==
    /\ \E client_id \in DOMAIN handler :
         /\ handler[client_id] = "open"
         /\ HandlerExit(client_id, "disconnect")
    /\ UNCHANGED <<lifespan, ZMQ_TASK, WS_BROADCAST_ALL, inbox, nclients, ndispatch, dispatch_pc,
                   dispatch_evt, dispatch_tasks, replies, client_msg, nmsgs>>
    /\ UNCHANGED not_ws_vars

\* websocket_listening_endpoint: receive_text raises another exception
ReceiveError ==
    /\ \E client_id \in DOMAIN handler :
         /\ handler[client_id] = "open"
         /\ HandlerExit(client_id, "receive_error")
    /\ UNCHANGED <<lifespan, ZMQ_TASK, WS_BROADCAST_ALL, inbox, nclients, ndispatch, dispatch_pc,
                   dispatch_evt, dispatch_tasks, replies, client_msg, nmsgs>>
    /\ UNCHANGED not_ws_vars

\* mutant of ReplyTo: a ping is answered twice
ReplyTo_twice(text) ==
    IF text.json # "object" THEN <<>>
    ELSE IF text.type = "ping" THEN <<"pong", "pong">>
    ELSE IF text.type = "stop_listening" THEN <<"stopped">>
    ELSE <<>>

\* the replies of the receive loop to a text frame
ReplyTo(text) ==
    IF text.json # "object" THEN <<>>
    ELSE IF text.type = "ping" THEN <<"pong">>
    ELSE IF text.type = "stop_listening" THEN <<"stopped">>
    ELSE <<>>

\* how the receive loop goes on after a text frame: json.loads raises on text
\* that is not JSON (continue); data.get raises AttributeError on JSON that
\* is not an object, and so does a send_text that fails: the exception
\* leaves the loop through the finally block; stop_listening breaks
AfterText(text, send_ok) ==
    IF text.json = "invalid" THEN "continue"
    ELSE IF text.json # "object" THEN "bad_message"
    ELSE IF ReplyTo(text) # <<>> /\ ~send_ok THEN "send_error"
    ELSE IF text.type = "stop_listening" THEN "stop_listening"
    ELSE "continue"

\* websocket_listening_endpoint: receive_text returns a text frame and the
\* loop handles it; send_ok: the reply, if any, can be sent
ClientMessage ==
    /\ nmsgs < MaxClientMsgs
    /\ \E client_id \in DOMAIN handler, text \in ClientTexts, send_ok \in BOOLEAN :
         /\ handler[client_id] = "open"
         /\ ReplyTo(text) = <<>> => send_ok
         /\ client_msg' = [cid |-> client_id, text |-> text, send_ok |-> send_ok]
         /\ replies' = [replies EXCEPT ![client_id] =
                            IF send_ok THEN @ \o ReplyTo(text) ELSE @]
         /\ IF AfterText(text, send_ok) = "continue"
            THEN UNCHANGED <<handler, LISTENING_CLIENTS, CLIENT_IP_MAPPING, removed_by>>
            ELSE HandlerExit(client_id, AfterText(text, send_ok))
    /\ nmsgs' = nmsgs + 1
    /\ UNCHANGED <<lifespan, ZMQ_TASK, WS_BROADCAST_ALL, inbox, nclients, ndispatch, dispatch_pc,
                   dispatch_evt, dispatch_tasks>>
    /\ UNCHANGED not_ws_vars

\* _zmq_consume_loop hands an event of the set events to
\* _dispatch_asr_event, which runs up to its await (or returns)
DispatchStartWith(events) ==
    /\ ZMQ_TASK = "running"
    /\ dispatch_pc = "idle"
    /\ ndispatch < MaxDispatch
    /\ \E evt \in events :
         LET routed == ~ (evt.type = Absent
                          \/ (~WS_BROADCAST_ALL /\ evt.peer_ip = Absent))
             tasks == IF routed
                      THEN target_clients(LISTENING_CLIENTS, CLIENT_IP_MAPPING,
                                          evt, WS_BROADCAST_ALL)
                      ELSE <<>>
         IN /\ dispatch_evt' = evt
            /\ dispatch_tasks' = tasks
            /\ dispatch_pc' = IF tasks # <<>> THEN "gather" ELSE "idle"
    /\ ndispatch' = ndispatch + 1
    /\ UNCHANGED <<lifespan, ZMQ_TASK, WS_BROADCAST_ALL, LISTENING_CLIENTS, CLIENT_IP_MAPPING, inbox, nclients,
                   handler, removed_by, replies, client_msg, nmsgs>>
    /\ UNCHANGED not_ws_vars

\* any event arrives
DispatchStart == DispatchStartWith(WsEvents)

\* an ASR event for the peer 10.0.0.1 arrives
DispatchAsr == DispatchStartWith({[type |-> "asr_update", peer_ip |-> "10.0.0.1"]})

\* the send tasks that raise whatever the network does: the handler of the
\* client has returned since the task was created, the server has closed the
\* connection and send_text on it raises
MustRaise(tasks) == {cid \in SeqRange(tasks) : handler[cid] = "exited"}

\* asyncio.gather returns: every send either delivered the event or raised,
\* and the clients whose send raised are removed
DispatchFinish ==
    /\ dispatch_pc = "gather"
    /\ \E problem \in SUBSET SeqRange(dispatch_tasks) :
         /\ MustRaise(dispatch_tasks) \subseteq problem
         /\ inbox' = [cid \in DOMAIN inbox |->
                        IF cid \in SeqRange(dispatch_tasks) \ problem
                        THEN Append(inbox[cid], dispatch_evt) ELSE inbox[cid]]
         /\ Pop(problem, "send_error")
    /\ dispatch_pc' = "idle"
    /\ UNCHANGED <<lifespan, ZMQ_TASK, WS_BROADCAST_ALL, nclients, ndispatch, dispatch_evt, dispatch_tasks,
                   handler, replies, client_msg, nmsgs>>
    /\ UNCHANGED not_ws_vars

\* Task.done()
Done(task) == task \in {"failed", "cancelled"}

\* startup_event, run once when the application starts: the consume task is
\* created if there is none or the one there is done
StartupEvent ==
    /\ lifespan = "startup"
    /\ lifespan' = "serving"
    /\ ZMQ_TASK' = IF ZMQ_TASK = None \/ Done(ZMQ_TASK) THEN "running" ELSE ZMQ_TASK
    /\ UNCHANGED <<WS_BROADCAST_ALL, LISTENING_CLIENTS, CLIENT_IP_MAPPING, inbox, nclients,
                   ndispatch, dispatch_pc, dispatch_evt, dispatch_tasks,
                   handler, removed_by, replies, client_msg, nmsgs>>
    /\ UNCHANGED not_ws_vars

\* _zmq_consume_loop: "await sub.recv()" raises an error of the socket; only
\* asyncio.CancelledError is caught, the finally block closes the socket and
\* the exception ends the task
RecvError ==
    /\ ZMQ_TASK = "running"
    /\ dispatch_pc = "idle"
    /\ ZMQ_TASK' = "failed"
    /\ UNCHANGED <<lifespan, WS_BROADCAST_ALL, LISTENING_CLIENTS, CLIENT_IP_MAPPING, inbox,
                   nclients, ndispatch, dispatch_pc, dispatch_evt, dispatch_tasks,
                   handler, removed_by, replies, client_msg, nmsgs>>
    /\ UNCHANGED not_ws_vars

\* shutdown_event: a task that is not done is cancelled.  The cancellation
\* reaches the task at its await: at sub.recv(), or at the gather of a
\* dispatch, whose sends are then cancelled too: those that had completed
\* have delivered the event, and no result is looked at
ShutdownEvent ==
    /\ lifespan = "serving"
    /\ lifespan' = "shutdown"
    /\ ZMQ_TASK' = IF ZMQ_TASK # None /\ ~Done(ZMQ_TASK) THEN "cancelled" ELSE ZMQ_TASK
    /\ IF ZMQ_TASK = "running" /\ dispatch_pc = "gather"
       THEN /\ \E sent \in SUBSET (SeqRange(dispatch_tasks) \ MustRaise(dispatch_tasks)) :
                 inbox' = [cid \in DOMAIN inbox |->
                              IF cid \in sent THEN Append(inbox[cid], dispatch_evt)
                              ELSE inbox[cid]]
            /\ dispatch_pc' = "idle"
       ELSE UNCHANGED <<inbox, dispatch_pc>>
    /\ UNCHANGED <<WS_BROADCAST_ALL, LISTENING_CLIENTS, CLIENT_IP_MAPPING, nclients,
                   ndispatch, dispatch_evt, dispatch_tasks,
                   handler, removed_by, replies, client_msg, nmsgs>>
    /\ UNCHANGED not_ws_vars

(* ============== websocket-server/ws_ticket_routes.py ==================== *)
\* requests POST /ticketGeneration
MaxTickets == 1

\* longest conversation of a request
MaxTurns == 2

TicketFields == {"ticket_type", "ticket_zone", "ticket_title", "ticket_content"}

\* ConversationItem.source: Literal["citizen", "hot-line"]
Sources == {"citizen", "hot-line"}

\* A JSON value inside a payload: a string, a number (v its decimal text),
\* null, or a nested object
JStr(s) == [t |-> "str", v |-> s]

JNum(s) == [t |-> "num", v |-> s]

JNull == [t |-> "null", v |-> ""]

JObj == [t |-> "obj", v |-> ""]

\* A JSON document: an object (fields), an array or a string (items: its
\* elements, its words), a number, null, or text that is not JSON (invalid)
JDoc(kind, fields, items) == [kind |-> kind, fields |-> fields, items |-> items]

\* Python None for the payload
NoPayload == JDoc("none", <<>>, <<>>)

FullTicket ==
    [f \in TicketFields |->
        IF f = "ticket_type" THEN JStr("complaint") ELSE JStr(f)]

FieldsWith(f, k, v) == [x \in (DOMAIN f) \cup {k} |-> IF x = k THEN v ELSE f[x]]

FieldsWithout(f, k) == [x \in (DOMAIN f) \ {k} |-> f[x]]

\* the bodies the upstream service may answer with
UpstreamPayloads ==
    {JDoc("object", FullTicket, <<>>),
     JDoc("object", FieldsWithout(FullTicket, "ticket_content"), <<>>),
     JDoc("object", FieldsWith(FullTicket, "zone_correction", JObj), <<>>),
     JDoc("object", FieldsWith(FullTicket, "ticket_zone", JNull), <<>>),
     JDoc("object", FieldsWith(FullTicket, "ticket_type", JNum("5")), <<>>),
     JDoc("object", FieldsWith(FullTicket, "ticket_title", JObj), <<>>),
     JDoc("object", <<>>, <<>>),
     JDoc("array", <<>>, <<"ticket_type", "ticket_zone", "ticket_title", "ticket_content">>),
     JDoc("string", <<>>, <<"ticket_type", "ticket_zone", "ticket_title", "ticket_content">>),
     JDoc("number", <<>>, <<>>),
     JDoc("null", <<>>, <<>>),
     JDoc("invalid", <<>>, <<>>)}

\* what requests.post comes to
UpstreamOutcomes ==
    {[kind |-> k, status |-> 0, payload |-> NoPayload] :
        k \in {"timeout", "connection_error", "exception", "no_helper"}}
    \cup {[kind |-> "http", status |-> 500, payload |-> JDoc("object", <<>>, <<>>)]}
    \cup {[kind |-> "http", status |-> 200, payload |-> p] : p \in UpstreamPayloads}

\* conversation items; the last one has a source the request schema does not
\* allow
RawItems == {[source |-> "citizen", text |-> "no water"],
             [source |-> "hot-line", text |-> "which address"],
             [source |-> "citizen", text |-> "which address"],
             [source |-> "agent", text |-> "no water"]}

\* conversations of at most MaxTurns items
RawConversations == UNION {[1..n -> RawItems] : n \in 0..MaxTurns}

RawRequests == [unique_key : {"u1", "u2"}, conversation : RawConversations]

\* TicketRequest: the request passes validation
ValidTicketRequest(req) ==
    \A i \in 1..Len(req.conversation) : req.conversation[i].source \in Sources

\* {item.source: item.text}
ItemMapping(item) == [s \in {item.source} |-> item.text]

body_reversed(req) ==
    [k \in {req.unique_key} |->
        [i \in 1..Len(req.conversation) |->
            ItemMapping(req.conversation[Len(req.conversation) + 1 - i])]]

\* body = {req.unique_key: [{item.source: item.text} for item in req.conversation]}
body(req) ==
    [k \in {req.unique_key} |->
        [i \in 1..Len(req.conversation) |-> ItemMapping(req.conversation[i])]]

SeqElems(sq) == {sq[i] : i \in 1..Len(sq)}

\* field not in result, for the result kinds on which "in" is defined
FieldMissing(result, field) ==
    IF result.kind = "object" THEN field \notin DOMAIN result.fields
    ELSE field \notin SeqElems(result.items)

\* test_service.send_test_request(..., return_response=True): (success, payload)
send_test_request(upstream) ==
    IF upstream.kind # "http" THEN [success |-> FALSE, payload |-> NoPayload]
    ELSE IF upstream.status # 200 THEN [success |-> FALSE, payload |-> NoPayload]
    ELSE LET result == upstream.payload
         IN \* response.json() raises, or "in" raises TypeError: except Exception
            IF result.kind \in {"invalid", "number", "null"}
            THEN [success |-> FALSE, payload |-> NoPayload]
            ELSE IF \E f \in TicketFields : FieldMissing(result, f)
            THEN [success |-> FALSE, payload |-> result]
            ELSE [success |-> TRUE, payload |-> result]

\* not payload
Falsy(payload) ==
    \/ payload.kind \in {"none", "null"}
    \/ payload.kind = "object" /\ DOMAIN payload.fields = {}
    \/ payload.kind \in {"array", "string"} /\ payload.items = <<>>

\* a value pydantic accepts for a str field
StrFieldOk(value, coerces) == value.t = "str" \/ (value.t = "num" /\ coerces)

HttpError(status, detail) == [status |-> status, resp |-> [detail |-> JStr(detail)]]

validate_lenient(payload, coerces) ==
    IF payload.kind # "object" THEN HttpError(502, "ticket proxy failed")
    ELSE [status |-> 200,
          resp |-> [f \in (DOMAIN payload.fields) \cap TicketFields |-> payload.fields[f]]]

\* TicketResponse(**payload) and what ticket_generation makes of it
validate(payload, coerces) ==
    IF payload.kind # "object" THEN HttpError(502, "ticket proxy failed")
    ELSE IF \E f \in TicketFields :
                \/ f \notin DOMAIN payload.fields
                \/ ~StrFieldOk(payload.fields[f], coerces)
    THEN HttpError(502, "ticket service invalid response")
    ELSE [status |-> 200, resp |-> [f \in TicketFields |-> JStr(payload.fields[f].v)]]

\* ticket_generation, for a request that passed validation
ticket_generation(req, upstream, coerces) ==
    IF upstream.kind = "no_helper" THEN HttpError(502, "ticket proxy failed")
    ELSE LET result == send_test_request(upstream)
         IN IF ~result.success \/ Falsy(result.payload)
            THEN HttpError(502, "ticket service error")
            ELSE validate(result.payload, coerces)

NoRequest == [unique_key |-> "", conversation |-> <<>>]

NoUpstream == [kind |-> "none", status |-> 0, payload |-> NoPayload]

TicketInitWith(coercions) ==
    /\ pydantic_coerces \in coercions
    /\ ticket_count = 0
    /\ ticket_req = NoRequest
    /\ ticket_body = <<>>
    /\ ticket_upstream = NoUpstream
    /\ ticket_status = 0
    /\ ticket_resp = [detail |-> JStr("")]

TicketIdle == TicketInitWith({FALSE})

\* POST /ticketGeneration with a body the request schema rejects: FastAPI
\* answers 422 and ticket_generation is not entered
TicketRejected ==
    /\ ticket_count < MaxTickets
    /\ \E req \in RawRequests :
         /\ ~ValidTicketRequest(req)
         /\ ticket_req' = req
    /\ ticket_body' = <<>>
    /\ ticket_upstream' = NoUpstream
    /\ ticket_status' = 422
    /\ ticket_resp' = [detail |-> JStr("validation error")]
    /\ ticket_count' = ticket_count + 1
    /\ UNCHANGED pydantic_coerces
    /\ UNCHANGED not_ticket_vars

\* POST /ticketGeneration: ticket_generation from entry to response
TicketGeneration ==
    /\ ticket_count < MaxTickets
    /\ \E req \in RawRequests, upstream \in UpstreamOutcomes :
         /\ ValidTicketRequest(req)
         /\ LET r == ticket_generation(req, upstream, pydantic_coerces)
            IN /\ ticket_req' = req
               /\ ticket_body' = body(req)
               /\ ticket_upstream' = upstream
               /\ ticket_status' = r.status
               /\ ticket_resp' = r.resp
    /\ ticket_count' = ticket_count + 1
    /\ UNCHANGED pydantic_coerces
    /\ UNCHANGED not_ticket_vars

(* ===================== ai-generated-ticket/app.py ======================= *)
\* calls of get_next_endpoint
MaxLbCalls == 4

\* DEEPSEEK_ENDPOINTS: the configured endpoint lists
EndpointLists == {<<"ep1">>, <<"ep1", "ep2">>, <<"ep1", "ep2", "ep3">>}

\* what a requests.post to an endpoint comes to; bad_json: status 200 with a
\* body that response.json() cannot parse
LbOutcomes == {"ok", "timeout", "http_error", "bad_json"}

\* the balancer as one record
Balancer == [endpoints |-> endpoints, round_robin |-> round_robin,
             health_status |-> health_status, request_count |-> request_count,
             error_count |-> error_count]

\* next(self.round_robin): the position after pos in the cycle
CycleNext(lb, pos) == (pos % Len(lb.endpoints)) + 1

\* the endpoints marked healthy
HealthySet(lb) == {ep \in SeqElems(lb.endpoints) : lb.health_status[ep]}

Chosen(lb, endpoint) ==
    [lb |-> [lb EXCEPT !.request_count[endpoint] = @ + 1], endpoint |-> endpoint]

\* get_next_endpoint: for _ in range(len(self.endpoints)), tries rounds left
RECURSIVE ScanHealthy(_, _, _)
ScanHealthy(lb, tries, choice) ==
    IF tries = 0 THEN Chosen(lb, choice)
    ELSE LET pos == CycleNext(lb, lb.round_robin)
             endpoint == lb.endpoints[pos]
             advanced == [lb EXCEPT !.round_robin = pos]
         IN IF lb.health_status[endpoint]
            THEN Chosen(advanced, endpoint)
            ELSE ScanHealthy(advanced, tries - 1, choice)

get_next_endpoint_unchecked(lb, choice) ==
    LET pos == CycleNext(lb, lb.round_robin)
    IN Chosen([lb EXCEPT !.round_robin = pos], lb.endpoints[pos])

\* mutant of get_next_endpoint: random.choice although some are healthy
get_next_endpoint_random(lb, choice) == Chosen(lb, choice)

\* DeepSeekLoadBalancer.get_next_endpoint; choice is what random.choice picks
get_next_endpoint(lb, choice) == ScanHealthy(lb, Len(lb.endpoints), choice)

mark_unhealthy_forgotten(lb, endpoint) ==
    [lb EXCEPT !.error_count[endpoint] = @ + 1]

\* DeepSeekLoadBalancer.mark_unhealthy
mark_unhealthy(lb, endpoint) ==
    [lb EXCEPT !.health_status[endpoint] = FALSE, !.error_count[endpoint] = @ + 1]

\* DeepSeekLoadBalancer.mark_healthy
mark_healthy(lb, endpoint) == [lb EXCEPT !.health_status[endpoint] = TRUE]

\* DeepSeekLoadBalancer.__init__
LbInitWith(lists) ==
    /\ endpoints \in lists
    /\ round_robin = 0
    /\ health_status = [ep \in SeqElems(endpoints) |-> TRUE]
    /\ request_count = [ep \in SeqElems(endpoints) |-> 0]
    /\ error_count = [ep \in SeqElems(endpoints) |-> 0]
    /\ lb_calls = <<>>
    /\ summaries = <<>>

LbIdle == LbInitWith({<<"ep1">>})

\* the balancer with the record of its calls
LbState == [lb |-> Balancer, calls |-> lb_calls]

\* one request through the balancer: an endpoint is chosen, the request is
\* made, and the endpoint is left marked healthy (ok) or unhealthy
lb_request(s, by, choice, outcome, ok) ==
    LET got == get_next_endpoint(s.lb, choice)
        lb == IF ok THEN mark_healthy(got.lb, got.endpoint)
              ELSE mark_unhealthy(mark_healthy(got.lb, got.endpoint), got.endpoint)
    IN [lb |-> lb,
        calls |-> Append(s.calls,
                         [by |-> by, endpoint |-> got.endpoint,
                          healthy |-> HealthySet(s.lb),
                          pos |-> s.lb.round_robin, outcome |-> outcome])]

\* the balancer's variables take the values of s
LbBecomes(s) ==
    /\ round_robin' = s.lb.round_robin
    /\ health_status' = s.lb.health_status
    /\ request_count' = s.lb.request_count
    /\ error_count' = s.lb.error_count
    /\ lb_calls' = s.calls

LbRequest(by, choice, outcome, ok) ==
    LbBecomes(lb_request(LbState, by, choice, outcome, ok))

\* TicketSummarizer.call_deepseek_model: a timeout or an error status raises
\* a RequestException before mark_healthy; after mark_healthy a body that
\* cannot be parsed raises an error that is a RequestException or not, by
\* the version of requests
CallDeepseekModel ==
    /\ Len(lb_calls) < MaxLbCalls
    /\ \E choice \in SeqElems(endpoints), outcome \in LbOutcomes,
          json_error_is_request_exception \in BOOLEAN :
         LbRequest("call_deepseek_model", choice, outcome,
                   \/ outcome = "ok"
                   \/ outcome = "bad_json" /\ ~json_error_is_request_exception)
    /\ UNCHANGED <<endpoints, summaries>>
    /\ UNCHANGED not_lb_vars

\* LocationCorrector.correct_zone: every exception marks the endpoint
\* unhealthy
CorrectZone ==
    /\ Len(lb_calls) < MaxLbCalls
    /\ \E choice \in SeqElems(endpoints), outcome \in LbOutcomes :
         LbRequest("correct_zone", choice, outcome, outcome = "ok")
    /\ UNCHANGED <<endpoints, summaries>>
    /\ UNCHANGED not_lb_vars

(* ---------------------- TicketSummarizer.summarize ---------------------- *)
\* app.py: MAX_RETRIES = 2
MAX_RETRIES == 2

\* POST /summarize requests handled
MaxSummaries == 2

\* what an attempt of summarize comes to: the model answers with a ticket,
\* the request times out, or the model answers with text that
\* validate_and_parse_json rejects
AttemptOutcomes == {"ok", "timeout", "bad_ticket"}

\* what correct_zone comes to: ticket_zone is empty and no request is made,
\* or the request succeeds or times out
ZoneOutcomes == {"no_input", "ok", "timeout"}

\* LocationCorrector.correct_zone on state s: no exception leaves it
correct_zone(s, choice, outcome) ==
    IF outcome = "no_input" THEN s
    ELSE lb_request(s, "correct_zone", choice, outcome, outcome = "ok")

\* the "for attempt in range(MAX_RETRIES + 1)" loop of summarize from the
\* attempt-th round on (1-based); outcomes[a] and choices[a] are what the
\* a-th call_deepseek_model comes to and what random.choice would pick
RECURSIVE SummarizeFrom(_, _, _, _, _, _)
SummarizeFrom(s, attempt, outcomes, choices, zone, zone_choice) ==
    IF attempt > MAX_RETRIES + 1 THEN [s |-> s, status |-> 500]
    ELSE LET called == lb_request(s, "call_deepseek_model", choices[attempt],
                                  outcomes[attempt], outcomes[attempt] # "timeout")
         IN IF outcomes[attempt] = "ok"
            THEN [s |-> correct_zone(called, zone_choice, zone), status |-> 200]
            ELSE SummarizeFrom(called, attempt + 1, outcomes, choices, zone, zone_choice)

\* TicketSummarizer.summarize
summarize(s, outcomes, choices, zone, zone_choice) ==
    SummarizeFrom(s, 1, outcomes, choices, zone, zone_choice)

\* POST /summarize with a well-formed conversation
Summarize ==
    /\ Len(summaries) < MaxSummaries
    /\ \E outcomes \in [1 .. MAX_RETRIES + 1 -> AttemptOutcomes],
          choices \in [1 .. MAX_RETRIES + 1 -> SeqElems(endpoints)],
          zone \in ZoneOutcomes, zone_choice \in SeqElems(endpoints) :
         LET r == summarize(LbState, outcomes, choices, zone, zone_choice)
         IN /\ LbBecomes(r.s)
            /\ summaries' = Append(summaries, [first |-> Len(lb_calls) + 1,
                                               last |-> Len(r.s.calls),
                                               status |-> r.status])
    /\ UNCHANGED endpoints
    /\ UNCHANGED not_lb_vars

(* ====== the identity fields from the segment metadata to the clients ==== *)
(* daemon.py decodes the metadata of a segment, builds its events and sends  *)
(* them with send_json; websocket.py decodes each event and sends it to the *)
(* clients with json.dumps.                                                 *)
\* segments received by the daemon while the clients listen
MaxPipeSegs == 3

IdentityFields == {"peer_ip", "source", "unique_key", "ssrc"}

\* Python values: str, int, bool, None
PyStr(s) == [py |-> "str", v |-> s]

PyInt(n) == [py |-> "int", v |-> n]

PyBool(b) == [py |-> "bool", v |-> b]

PyNone == [py |-> "NoneType", v |-> ""]

\* JSON true / false
JBool(b) == [t |-> "bool", v |-> b]

\* json.loads of one JSON value
json_loads_value(j) ==
    CASE j.t = "str" -> PyStr(j.v)
      [] j.t = "num" -> PyInt(j.v)
      [] j.t = "bool" -> PyBool(j.v)
      [] j.t = "null" -> PyNone

\* json.dumps of one Python value
json_dumps_value(p) ==
    CASE p.py = "str" -> JStr(p.v)
      [] p.py = "int" -> JNum(p.v)
      [] p.py = "bool" -> JBool(p.v)
      [] p.py = "NoneType" -> JNull

\* json.loads of a JSON object
json_loads(doc) == [k \in DOMAIN doc |-> json_loads_value(doc[k])]

\* json.dumps(evt, ensure_ascii=False) of a dict
json_dumps(obj) == [k \in DOMAIN obj |-> json_dumps_value(obj[k])]

\* the identity part of the metadata the PULL socket may deliver: JSON objects
\* with all four fields, with some of them missing, and with null values
RawMetas ==
    {[peer_ip |-> JStr("10.0.0.1"), source |-> JStr("citizen"),
      unique_key |-> JStr("call-1"), ssrc |-> JNum(4660)],
     [peer_ip |-> JStr("10.0.0.1"), source |-> JStr("hot-line"),
      unique_key |-> JNull, ssrc |-> JNum(4661)],
     [source |-> JStr("citizen"), unique_key |-> JStr("call-2")]}

\* the rest of a segment: audio in which speech is recognised, final or not,
\* or the final segment of a call without audio
PipeAudio == {[pcm_len |-> 320, rec |-> [text |-> "hello", vad_start_ms |-> 1000],
               is_finished |-> FALSE],
              [pcm_len |-> 320, rec |-> [text |-> "hello", vad_start_ms |-> 1000],
               is_finished |-> TRUE],
              [pcm_len |-> 0, rec |-> NoAsr, is_finished |-> TRUE]}

\* meta.get(key, default)
MetaGet(meta, key, default) == IF key \in DOMAIN meta THEN meta[key] ELSE default

\* the defaults of main: meta.get('peer_ip', 'unknown'), meta.get('source',
\* 'unknown'), meta.get('unique_key'), meta.get('ssrc')
MetaDefault(key) == IF key \in {"peer_ip", "source"} THEN PyStr("unknown") ELSE PyNone

\* the locals main takes from the decoded metadata
MetaLocals(meta_raw, start_ts, is_finished) ==
    LET meta == json_loads(meta_raw)
    IN [peer_ip |-> MetaGet(meta, "peer_ip", MetaDefault("peer_ip")),
        source |-> MetaGet(meta, "source", MetaDefault("source")),
        unique_key |-> MetaGet(meta, "unique_key", MetaDefault("unique_key")),
        ssrc |-> MetaGet(meta, "ssrc", MetaDefault("ssrc")),
        start_ts |-> start_ts,
        IsFinished |-> is_finished]

\* pub_sock.send_json(event, ensure_ascii=False): the JSON object sent
send_json(event) ==
    [k \in DOMAIN event |->
        IF k \in IdentityFields THEN json_dumps_value(event[k])
        ELSE IF k \in {"type", "text"} THEN JStr(event[k])
        ELSE IF k = "is_finished" THEN JBool(event[k])
        ELSE JNum(event[k])]

PipeIdle ==
    /\ pipe_metas = <<>>
    /\ pipe_sent = <<>>
    /\ seg_log = <<>>

\* pull_sock.recv_multipart() returns a segment with metadata meta_raw and
\* main handles it; the websocket server has consumed what was sent before
PipeSegment ==
    /\ daemon_pc = "running"
    /\ nsegs < MaxPipeSegs
    /\ Len(pipe_sent) = Len(wire)
    /\ \E meta_raw \in RawMetas, start_ts \in StartTsSet, audio \in PipeAudio :
         /\ LET meta == MetaLocals(meta_raw, start_ts, audio.is_finished)
                r == HandleSegment(call_state, Mgr, allow_ips, meta, audio.pcm_len,
                                   audio.rec, now)
            IN /\ call_state' = r.cs
               /\ queues' = r.m.queues
               /\ last_published' = r.m.last_published
               /\ wire' = r.m.wire
               /\ wire_info' = r.m.wire_info
               /\ last_peer' = meta.peer_ip
         /\ pipe_metas' = Append(pipe_metas, meta_raw)
    /\ nsegs' = nsegs + 1
    /\ UNCHANGED <<allow_file, allow_ips, now, daemon_pc, pipe_sent, seg_log>>
    /\ UNCHANGED <<seg_vars, ws_vars, ticket_vars, lb_vars>>

\* _zmq_consume_loop receives the next event the daemon sent and
\* _dispatch_asr_event sends it to a listening client
ZmqConsume ==
    /\ Len(pipe_sent) < Len(wire)
    /\ LET msg == send_json(wire[Len(pipe_sent) + 1])
           evt == json_loads(msg)
       IN pipe_sent' = Append(pipe_sent, json_dumps(evt))
    /\ UNCHANGED <<pipe_metas, seg_log>>
    /\ UNCHANGED not_pipe_vars

vars == <<daemon_vars, seg_vars, ws_vars, ticket_vars, lb_vars, pipe_vars>>

DaemonIdle == DaemonInitWith({Missing})

\* the daemon started without an allow_list file
Init == DaemonIdle /\ SegIdle /\ WSIdle /\ TicketIdle /\ LbIdle /\ PipeIdle

Next == Segment \/ Tick \/ Shutdown

Spec == Init /\ [][Next]_vars

\* the daemon started with any of the allow_list files; the clock plays no
\* part in the whitelist test and stands still
InitAllow == DaemonInitWith(AllowFiles) /\ SegIdle /\ WSIdle /\ TicketIdle /\ LbIdle /\ PipeIdle

NextAllow == Segment \/ Shutdown

SpecAllow == InitAllow /\ [][NextAllow]_vars

\* the daemon with or without an allow list, every segment written down
InitFinish ==
    /\ DaemonInitWith({Missing, <<"10.0.0.1", "">>})
    /\ SegIdle /\ WSIdle /\ TicketIdle /\ LbIdle /\ PipeIdle

NextFinish == SegmentLogged \/ Shutdown

SpecFinish == InitFinish /\ [][NextFinish]_vars

\* the daemon receiving segments with three start_ts values until it is
\* interrupted
InitDrain == DaemonIdle /\ SegIdle /\ WSIdle /\ TicketIdle /\ LbIdle /\ PipeIdle

NextDrain == SegmentTimed \/ Tick \/ Shutdown

SpecDrain == InitDrain /\ [][NextDrain]_vars

\* the capture: the packets of one call arrive in any order, any of them
\* possibly twice or never; the call starts at either base sequence number
\* and the capture runs with the default or a short duration threshold
InitSeg ==
    /\ SegInitWith(BaseSeqs, {ShortThresholdPkts * PayloadLen,
                              DefaultDurationSec * SampleRate})
    /\ DaemonIdle /\ WSIdle /\ TicketIdle /\ LbIdle /\ PipeIdle

NextSeg == DeliverPacket

SpecSeg == InitSeg /\ [][NextSeg]_vars

\* the same capture with --duration set to one payload, so that several
\* segments are published within MaxArrivals packets
InitOrder ==
    /\ SegInitWith({1000}, {PayloadLen})
    /\ DaemonIdle /\ WSIdle /\ TicketIdle /\ LbIdle /\ PipeIdle

NextOrder == DeliverPacket

SpecOrder == InitOrder /\ [][NextOrder]_vars

\* the capture with its call table: SIP and RTP packets arrive while the
\* timeout thread checks every second; segments are published at the short
\* threshold
InitCalls ==
    /\ SegInitWith({1000}, {ShortThresholdPkts * PayloadLen})
    /\ DaemonIdle /\ WSIdle /\ TicketIdle /\ LbIdle /\ PipeIdle

NextCalls == SipInvite \/ SipBye \/ RtpPacket \/ CheckCallTimeouts

SpecCalls == InitCalls /\ [][NextCalls]_vars

\* the capture thread, one statement group at a time, and the timeout thread
InitThreads == InitCalls

NextThreads == SipInvite \/ SipBye \/ RtpMatch \/ RtpTouch \/ RtpAppend \/ CheckCallTimeouts

SpecThreads == InitThreads /\ [][NextThreads]_vars

\* the websocket server in either routing mode
InitWS == WSInitWith(EnvValues) /\ DaemonIdle /\ SegIdle /\ TicketIdle /\ LbIdle /\ PipeIdle

NextWS == Connect \/ Disconnect \/ DispatchStart \/ DispatchFinish

SpecWS == InitWS /\ [][NextWS]_vars

\* the websocket server in either routing mode, its clients connected
\* directly and sending text frames, while ASR events for one peer arrive
InitListen == WSInitWith(EnvValues) /\ DaemonIdle /\ SegIdle /\ TicketIdle /\ LbIdle /\ PipeIdle

NextListen == ConnectDirect \/ Disconnect \/ ReceiveError \/ ClientMessage \/ DispatchAsr \/ DispatchFinish

SpecListen == InitListen /\ [][NextListen]_vars

\* the websocket server from before its startup event to its shutdown, one
\* client listening while ASR events for its peer arrive; the startup event
\* and the return of a gather are steps the event loop takes by itself
InitSub == WSStarting(EnvValues) /\ DaemonIdle /\ SegIdle /\ TicketIdle /\ LbIdle /\ PipeIdle

NextSub ==
    \/ StartupEvent
    \/ ConnectDirect
    \/ Disconnect
    \/ DispatchAsr
    \/ DispatchFinish
    \/ RecvError
    \/ ShutdownEvent

SpecSub == InitSub /\ [][NextSub]_vars /\ WF_vars(StartupEvent) /\ WF_vars(DispatchFinish)

\* the ticket proxy, with either behaviour of the installed pydantic
InitTicket == TicketInitWith(BOOLEAN) /\ DaemonIdle /\ SegIdle /\ WSIdle /\ LbIdle /\ PipeIdle

NextTicket == TicketGeneration \/ TicketRejected

SpecTicket == InitTicket /\ [][NextTicket]_vars

\* the summarizer's load balancer over one, two or three endpoints
InitLB == LbInitWith(EndpointLists) /\ DaemonIdle /\ SegIdle /\ WSIdle /\ TicketIdle /\ PipeIdle

NextLB == CallDeepseekModel \/ CorrectZone

SpecLB == InitLB /\ [][NextLB]_vars

\* the summarizer behind two endpoints
InitSummarize ==
    /\ LbInitWith({<<"ep1", "ep2">>})
    /\ DaemonIdle /\ SegIdle /\ WSIdle /\ TicketIdle /\ PipeIdle

NextSummarize == Summarize

SpecSummarize == InitSummarize /\ [][NextSummarize]_vars

\* the daemon, started without an allow_list file, receives segments whose
\* metadata may lack identity fields, and the websocket server forwards the
\* events; the clock stands still
InitPipe == DaemonIdle /\ PipeIdle /\ SegIdle /\ WSIdle /\ TicketIdle /\ LbIdle

NextPipe == PipeSegment \/ ZmqConsume

SpecPipe == InitPipe /\ [][NextPipe]_vars

(* ===================== claims about the daemon ========================= *)
IsAsr(i) == wire[i].type = "asr_update"
IsFinish(i) == wire[i].type = "call_finished"
CallIdOf(e) == <<e.peer_ip, e.source, e.unique_key, e.ssrc>>

\* i and j are consecutive asr_update publications of one peer
ConsecutiveAsr(i, j) ==
    /\ i < j
    /\ IsAsr(i) /\ IsAsr(j)
    /\ wire[i].peer_ip = wire[j].peer_ip
    /\ \A k \in (i + 1)..(j - 1) : ~(IsAsr(k) /\ wire[k].peer_ip = wire[i].peer_ip)

\* i and j are consecutive publications (of any type) of one peer
ConsecutiveOfPeer(i, j) ==
    /\ i < j
    /\ wire[i].peer_ip = wire[j].peer_ip
    /\ \A k \in (i + 1)..(j - 1) : wire[k].peer_ip # wire[i].peer_ip

WasHeld(j) == wire_info[j].wait >= MaxDelay

\* C1 as stated: in the sequence of asr_update events published for one peer,
\* whichever of try_publish_ready_events, flush_peer and flush_all published
\* them, each event has a voice_start_ts not below that of the event published
\* just before it, unless it was held at least max_delay.
C1_OrderedUnlessHeld ==
    \A i \in 1..Len(wire), j \in 1..Len(wire) :
        ConsecutiveAsr(i, j) =>
            wire[j].voice_start_ts >= wire[i].voice_start_ts \/ WasHeld(j)

\* C1 amended: the order holds from one event published by
\* try_publish_ready_events to the next one it publishes for the same peer
\* (unless that one was held at least max_delay), and among the events one
\* flush publishes; an event published by a flush may lie below what was
\* published before it without having been held.
C1_TryPublishOrderedUnlessHeld ==
    \A i \in 1..Len(wire), j \in 1..Len(wire) :
        /\ (ConsecutiveAsr(i, j)
              /\ wire_info[i].by = "try_publish" /\ wire_info[j].by = "try_publish")
           => (wire[j].voice_start_ts >= wire[i].voice_start_ts \/ WasHeld(j))
        /\ (ConsecutiveOfPeer(i, j) /\ IsAsr(i) /\ IsAsr(j)
              /\ wire_info[i].by = wire_info[j].by
              /\ wire_info[i].by \in {"flush_peer", "flush_all"})
           => wire[j].voice_start_ts >= wire[i].voice_start_ts

\* C1 witness: try_publish_ready_events has published an event below its
\* predecessor because it had been held max_delay.
C1_Witness ==
    \E i \in 1..Len(wire), j \in 1..Len(wire) :
        /\ ConsecutiveAsr(i, j)
        /\ wire_info[i].by = "try_publish" /\ wire_info[j].by = "try_publish"
        /\ wire[j].voice_start_ts < wire[i].voice_start_ts
        /\ WasHeld(j)

\* the pending events of peer_ip in qs, as a sequence (heap array order)
HeapOf(qs, peer_ip) ==
    IF QIndex(qs, peer_ip) = 0 THEN <<>> ELSE qs[QIndex(qs, peer_ip)].heap

\* how many entries of sequence sq satisfy being equal to x
CountIn(sq, x) == Cardinality({k \in 1..Len(sq) : sq[k] = x})

\* C2: a step that publishes a call_finished for a peer first publishes every
\* asr_update that was queued in that peer's heap, in ascending voice_start_ts
\* order whatever their waiting time, then the call_finished as the last
\* message of the step, and leaves no heap for the peer.
C2_FlushBeforeFinish ==
    [][ (Len(wire') > Len(wire) /\ wire'[Len(wire')].type = "call_finished") =>
          LET p == wire'[Len(wire')].peer_ip
              new == SubSeq(wire', Len(wire) + 1, Len(wire') - 1)
              mine == {k \in 1..Len(new) : new[k].peer_ip = p}
              held == HeapOf(queues, p)
          IN /\ \A k \in 1..Len(new) : new[k].type = "asr_update"
             /\ \A h \in 1..Len(held) :
                    CountIn([x \in 1..Len(held) |-> held[x].event], held[h].event)
                      <= CountIn(new, held[h].event)
             /\ \A a \in mine, b \in mine :
                    a < b => new[a].voice_start_ts <= new[b].voice_start_ts
             /\ QIndex(queues', p) = 0
      ]_vars

\* C2 witness: a call_finished went out right after an event that flush_peer
\* published although it had waited less than max_delay.
C2_Witness ==
    \E j \in 2..Len(wire) :
        /\ IsFinish(j)
        /\ wire_info[j - 1].by = "flush_peer"
        /\ wire[j - 1].peer_ip = wire[j].peer_ip
        /\ ~WasHeld(j - 1)

C4_EarlierStampFirstWithinWindow ==
    \A i \in 1..Len(wire), j \in 1..Len(wire) :
        (/\ i < j /\ IsAsr(i) /\ IsAsr(j)
         /\ wire[i].peer_ip = wire[j].peer_ip
         /\ wire[i].voice_start_ts > wire[j].voice_start_ts)
            => wire_info[j].recv - wire_info[i].recv >= MaxDelay

\* C5: no event stays in a heap once it has waited max_delay, whether or not
\* another segment arrives.
C5_NoEventHeldBeyondMaxDelay ==
    \A q \in 1..Len(queues) : \A h \in 1..Len(queues[q].heap) :
        now - queues[q].heap[h].receive_time <= MaxDelay

\* C6: with a non-empty allow-list nothing the daemon keeps or publishes
\* belongs to a peer outside the list, and the step that receives a segment of
\* such a peer changes neither call_state nor the heaps nor what was
\* published; with the file missing or without an IP line every segment is
\* processed (its call gets a call_state entry).
C6_AllowList ==
    /\ [](allow_ips # NoneSet =>
            /\ \A i \in 1..Len(wire) : wire[i].peer_ip \in allow_ips
            /\ \A k \in DOMAIN call_state : k[1] \in allow_ips
            /\ \A q \in 1..Len(queues) : queues[q].peer_ip \in allow_ips
            /\ DOMAIN last_published \subseteq allow_ips)
    /\ []((allow_file = Missing \/ \A i \in 1..Len(allow_file) : allow_file[i] = "")
            => (/\ allow_ips = NoneSet
                /\ last_peer # None => \E k \in DOMAIN call_state : k[1] = last_peer))
    /\ [][ (nsegs' # nsegs /\ allow_ips # NoneSet /\ last_peer' \notin allow_ips)
             => UNCHANGED <<call_state, queues, last_published, wire, wire_info>> ]_vars

\* C6 witness: a whitelist is active, a segment of a peer outside it was
\* received last, and events of a listed peer have been published.
C6_Witness ==
    /\ allow_ips # NoneSet
    /\ last_peer # None /\ last_peer \notin allow_ips
    /\ wire # <<>>
    /\ Cardinality(DOMAIN call_state) > 0

(* ===================== claims about the capture ======================== *)
\* the packets ks fed one after the other to a VoiceSegment through add_packet
RECURSIVE AddAll(_, _, _)
AddAll(sg, base, ks) ==
    IF ks = <<>> THEN sg
    ELSE AddAll(add_packet(sg, PayloadOf(Head(ks)), SeqOf(base, Head(ks))), base, Tail(ks))

\* the packets ks handed one after the other to packet_callback
RECURSIVE CallbackAll(_, _, _)
CallbackAll(c, ks, threshold) ==
    IF ks = <<>> THEN c
    ELSE CallbackAll(packet_callback_rtp(c, CallId, PayloadOf(Head(ks)), threshold),
                     Tail(ks), threshold)

EmptyCapture == [segments |-> <<>>, segment_counters |-> <<>>, published |-> <<>>]

RECURSIVE PublishedBytes(_)
PublishedBytes(pubs) ==
    IF pubs = <<>> THEN NoBytes
    ELSE Extend(Head(pubs).bytes, PublishedBytes(Tail(pubs)))

RECURSIVE PublishedSamples(_)
PublishedSamples(pubs) ==
    IF pubs = <<>> THEN 0 ELSE Head(pubs).samples + PublishedSamples(Tail(pubs))

\* every byte the capture has put into the call's segments, in order
CaptureBytes(c) ==
    Extend(PublishedBytes(c.published),
           IF CallId \in DOMAIN c.segments THEN c.segments[CallId].buffer ELSE NoBytes)

CaptureSamples(c) ==
    PublishedSamples(c.published)
    + (IF CallId \in DOMAIN c.segments THEN c.segments[CallId].samples_received ELSE 0)

RECURSIVE SortedSeq(_)
SortedSeq(S) ==
    IF S = {} THEN <<>>
    ELSE LET m == CHOOSE x \in S : \A y \in S : x <= y
         IN <<m>> \o SortedSeq(S \ {m})

\* sq without the repeated deliveries
RECURSIVE FirstDeliveries(_, _)
FirstDeliveries(sq, seen) ==
    IF sq = <<>> THEN <<>>
    ELSE IF Head(sq) \in seen THEN FirstDeliveries(Tail(sq), seen)
    ELSE <<Head(sq)>> \o FirstDeliveries(Tail(sq), seen \cup {Head(sq)})

\* arrivals is a permutation of a run of consecutive packets, none lost
IsPermutationOfRun(sq) ==
    /\ sq # <<>>
    /\ Cardinality(SeqRange(sq)) = Len(sq)
    /\ \E lo, hi \in 0 .. NPkts - 1 : SeqRange(sq) = lo .. hi

\* the packets arrived in ascending order, each once, and the sequence
\* numbers do not wrap
InOrderNoWrap(sq) ==
    /\ sq # <<>>
    /\ \A i \in 1 .. Len(sq) - 1 : sq[i] < sq[i + 1]
    /\ base_seq + NPkts <= SeqMask

\* the payloads of ks[1] .. ks[Len(ks)] with PayloadLen bytes of silence for
\* every packet in between that is not in ks
RECURSIVE WithSilence(_, _, _)
WithSilence(ks, k, last) ==
    IF k > last THEN NoBytes
    ELSE Extend(IF k \in SeqRange(ks) THEN PayloadOf(k) ELSE SilenceBytes(PayloadLen),
                WithSilence(ks, k + 1, last))

LargestGap(sq) ==
    LET gaps == {sq[i + 1] - sq[i] - 1 : i \in 1 .. Len(sq) - 1} \cup {0}
    IN CHOOSE g \in gaps : \A h \in gaps : h <= g

\* C7: whatever order the packets of a run of consecutive sequence numbers
\* arrive in (none lost, none twice), the segment holds the same bytes as when
\* they arrive in ascending order, both in the VoiceSegment fed through
\* add_packet and in the capture's segments.
C7_ReorderSameBytes ==
    IsPermutationOfRun(arrivals) =>
        LET inorder == SortedSeq(SeqRange(arrivals))
        IN /\ seg.buffer = AddAll(VoiceSegmentNew(0), base_seq, inorder).buffer
           /\ CaptureBytes(Capture)
                = CaptureBytes(CallbackAll(EmptyCapture, inorder, duration_threshold))

\* C8: the segment holds the same bytes and counts the same samples as if
\* every packet had been delivered only the first time, and a repeated
\* delivery leaves nothing behind in the pending buffer.
C8_DuplicateSameAsOnce ==
    LET once == FirstDeliveries(arrivals, {})
        sg == AddAll(VoiceSegmentNew(0), base_seq, once)
        c == CallbackAll(EmptyCapture, once, duration_threshold)
    IN /\ seg.buffer = sg.buffer
       /\ seg.samples_received = sg.samples_received
       /\ seg.packet_buffer = sg.packet_buffer
       /\ CaptureBytes(Capture) = CaptureBytes(c)
       /\ CaptureSamples(Capture) = CaptureSamples(c)

\* C9: when packets arrive in order with some lost in between, the buffer of
\* the VoiceSegment fed through add_packet holds the payloads that arrived
\* with PayloadLen bytes of 0xFF for every lost packet in its place, nothing
\* is left pending, and with a loss discontinuities is at least 1 and
\* max_seq_gap at least the number of packets lost in a row.
C9_GapFilledWithSilence ==
    InOrderNoWrap(arrivals) =>
        /\ seg.buffer = WithSilence(arrivals, arrivals[1], arrivals[Len(arrivals)])
        /\ seg.packet_buffer = <<>>
        /\ LargestGap(arrivals) > 0 =>
              /\ seg.discontinuities >= 1
              /\ seg.max_seq_gap >= LargestGap(arrivals)

(* ================ claims about the websocket server ===================== *)
\* the step hands an event that has a type to _dispatch_asr_event
DispatchesEvent == ndispatch' # ndispatch /\ dispatch_evt'.type # Absent

\* the clients registered before the step whose recorded ip is ip
RegisteredWithIp(ip) ==
    {cid \in SeqRange(LISTENING_CLIENTS) : CLIENT_IP_MAPPING[cid] = ip}

\* the step delivers an event to client cid
Delivers(cid) == cid \in DOMAIN inbox /\ inbox'[cid] # inbox[cid]

\* C10 as stated: in targeted mode the send tasks are created for exactly the
\* registered clients whose recorded ip equals the event's peer_ip, in
\* broadcast-all mode for every registered client; the mode never changes.
C10_TargetsEqualPeerIp ==
    /\ [][DispatchesEvent =>
            SeqRange(dispatch_tasks') =
                IF WS_BROADCAST_ALL THEN SeqRange(LISTENING_CLIENTS)
                ELSE RegisteredWithIp(dispatch_evt'.peer_ip)]_vars
    /\ [][WS_BROADCAST_ALL' = WS_BROADCAST_ALL]_vars

\* C10, amended: in targeted mode the send tasks are created for exactly the
\* registered clients whose recorded ip equals the event's peer_ip, where a
\* null or empty peer_ip stands for the recorded ip "unknown"; in
\* broadcast-all mode for every registered client.  An event is delivered
\* only to clients a send task was created for, and the mode never changes.
C10_TargetsEqualPeerIpOrUnknown ==
    /\ [][DispatchesEvent =>
            SeqRange(dispatch_tasks') =
                IF WS_BROADCAST_ALL THEN SeqRange(LISTENING_CLIENTS)
                ELSE IF dispatch_evt'.peer_ip \in {None, ""}
                     THEN RegisteredWithIp(Unknown)
                     ELSE RegisteredWithIp(dispatch_evt'.peer_ip)]_vars
    /\ [][\A cid \in DOMAIN inbox :
            Delivers(cid) => /\ cid \in SeqRange(dispatch_tasks)
                             /\ inbox'[cid] = Append(inbox[cid], dispatch_evt)]_vars
    /\ [][WS_BROADCAST_ALL' = WS_BROADCAST_ALL]_vars

\* targeted mode, two clients registered under different ips, and an event
\* with the first one's ip as peer_ip has been delivered to it and not to the
\* other
C10_Witness ==
    /\ ~WS_BROADCAST_ALL
    /\ dispatch_pc = "idle"
    /\ \E c1, c2 \in SeqRange(LISTENING_CLIENTS) :
         /\ CLIENT_IP_MAPPING[c1] # CLIENT_IP_MAPPING[c2]
         /\ dispatch_evt.peer_ip = CLIENT_IP_MAPPING[c1]
         /\ inbox[c1] = <<dispatch_evt>>
         /\ inbox[c2] = <<>>

(* ================== claims about the ticket proxy ====================== *)
\* the upstream answered 200 with a JSON object
UpstreamObject ==
    /\ ticket_upstream.kind = "http" /\ ticket_upstream.status = 200
    /\ ticket_upstream.payload.kind = "object"

\* the response body is the four string fields and nothing else
FourStringFields(resp) ==
    /\ DOMAIN resp = TicketFields
    /\ \A f \in TicketFields : resp[f].t = "str"

\* C11 as stated: a 200 response holds exactly the four string fields, and it
\* is given only when the upstream payload is itself exactly the four string
\* fields; any other upstream payload yields 502.
C11_TicketOnlyFromExactShape ==
    /\ ticket_status = 200 =>
          /\ FourStringFields(ticket_resp)
          /\ UpstreamObject /\ FourStringFields(ticket_upstream.payload.fields)
    /\ (ticket_upstream.kind = "http" /\ ticket_upstream.status = 200
        /\ ~(UpstreamObject /\ FourStringFields(ticket_upstream.payload.fields)))
          => ticket_status = 502

\* the upstream payload holds field f with a value the str field takes
FieldUsable(f) ==
    /\ f \in DOMAIN ticket_upstream.payload.fields
    /\ \/ ticket_upstream.payload.fields[f].t = "str"
       \/ pydantic_coerces /\ ticket_upstream.payload.fields[f].t = "num"

\* C11, amended: a 200 response holds exactly the four string fields, each
\* with the text the upstream gave for it, and it is given only when the
\* upstream payload is an object that holds all four fields with string
\* values (or, where pydantic converts, numbers); fields beyond the four are
\* dropped.  An upstream 200 of any other shape yields 502.
C11_TicketIsFourStrings ==
    /\ ticket_status = 200 =>
          /\ FourStringFields(ticket_resp)
          /\ UpstreamObject
          /\ \A f \in TicketFields :
                /\ FieldUsable(f)
                /\ ticket_resp[f].v = ticket_upstream.payload.fields[f].v
    /\ (ticket_upstream.kind = "http" /\ ticket_upstream.status = 200
        /\ ~(UpstreamObject /\ \A f \in TicketFields : FieldUsable(f)))
          => ticket_status = 502

\* a 200 was returned for an upstream payload that held a fifth field
C11_Witness ==
    /\ ticket_status = 200
    /\ "zone_correction" \in DOMAIN ticket_upstream.payload.fields
    /\ DOMAIN ticket_resp = TicketFields

\* C12: an upstream timeout yields 504; an upstream HTTP error, a payload of
\* the wrong shape or a transport exception yields 502.
C12_TimeoutIs504 ==
    /\ ticket_upstream.kind = "timeout" => ticket_status = 504
    /\ ticket_upstream.kind \in {"connection_error", "exception"} => ticket_status = 502
    /\ (ticket_upstream.kind = "http" /\ ticket_upstream.status # 200)
          => ticket_status = 502

\* C13: the body forwarded upstream has the single key unique_key, its value
\* is a list as long as the conversation, and the i-th element is the
\* single-entry mapping from the i-th item's source to its text.
C13_BodyIsConversation ==
    ticket_upstream # NoUpstream =>
        /\ DOMAIN ticket_body = {ticket_req.unique_key}
        /\ LET lst == ticket_body[ticket_req.unique_key]
               conv == ticket_req.conversation
           IN /\ Len(lst) = Len(conv)
              /\ \A i \in 1..Len(conv) :
                    /\ DOMAIN lst[i] = {conv[i].source}
                    /\ lst[i][conv[i].source] = conv[i].text

\* a request with two different turns was forwarded
C13_Witness ==
    /\ ticket_upstream # NoUpstream
    /\ Len(ticket_req.conversation) = 2
    /\ ticket_req.conversation[1] # ticket_req.conversation[2]
    /\ Len(ticket_body[ticket_req.unique_key]) = 2

(* ================= claims about the load balancer ====================== *)
\* the first endpoint of the set healthy, in cyclic list order after pos
FirstHealthyAfter(pos, healthy) ==
    LET n == Len(endpoints)
        at(d) == endpoints[((pos + d - 1) % n) + 1]
        d0 == CHOOSE d \in 1..n :
                  at(d) \in healthy /\ \A e \in 1..(d - 1) : at(e) \notin healthy
    IN at(d0)

\* C14: a call made while some endpoint is healthy returns the first healthy
\* endpoint in cyclic order after the position the previous call reached; a
\* call made while none is healthy returns an endpoint of the list; and any
\* N consecutive calls made with all N endpoints healthy return N different
\* endpoints.
C14_RoundRobinOverHealthy ==
    /\ \A i \in 1..Len(lb_calls) :
          /\ lb_calls[i].endpoint \in SeqElems(endpoints)
          /\ lb_calls[i].healthy # {} =>
                /\ lb_calls[i].endpoint \in lb_calls[i].healthy
                /\ lb_calls[i].endpoint = FirstHealthyAfter(lb_calls[i].pos, lb_calls[i].healthy)
    /\ \A i \in 1..Len(lb_calls) :
          LET last == i + Len(endpoints) - 1
          IN (/\ last <= Len(lb_calls)
              /\ \A k \in i..last : lb_calls[k].healthy = SeqElems(endpoints))
                => Cardinality({lb_calls[k].endpoint : k \in i..last}) = Len(endpoints)

\* a call skipped the endpoint next in the cycle, which was unhealthy, and
\* returned a healthy one
C14_Witness ==
    \E i \in 1..Len(lb_calls) :
        /\ lb_calls[i].healthy # {}
        /\ endpoints[(lb_calls[i].pos % Len(endpoints)) + 1] \notin lb_calls[i].healthy
        /\ lb_calls[i].endpoint \in lb_calls[i].healthy

\* C15: after a request to endpoint e timed out, e is unhealthy at the next
\* call, and no later call returns e for as long as every call since the
\* timeout was made with at least one endpoint healthy.
C15_TimedOutEndpointAvoided ==
    \A i \in 1..Len(lb_calls) :
        lb_calls[i].outcome = "timeout" =>
            /\ i < Len(lb_calls) => lb_calls[i].endpoint \notin lb_calls[i + 1].healthy
            /\ i = Len(lb_calls) => ~health_status[lb_calls[i].endpoint]
            /\ \A j \in (i + 1)..Len(lb_calls) :
                  (\A k \in (i + 1)..j : lb_calls[k].healthy # {})
                      => lb_calls[j].endpoint # lb_calls[i].endpoint

\* a request to e timed out and a later call, made when e was next in the
\* cycle and another endpoint was healthy, went to that other endpoint
C15_Witness ==
    \E i \in 1..Len(lb_calls) : \E j \in (i + 1)..Len(lb_calls) :
        /\ lb_calls[i].outcome = "timeout"
        /\ \A k \in (i + 1)..j : lb_calls[k].healthy # {}
        /\ endpoints[(lb_calls[j].pos % Len(endpoints)) + 1] = lb_calls[i].endpoint
        /\ lb_calls[j].endpoint # lb_calls[i].endpoint

(* ============ claims about the identity fields of an event ============= *)
\* the value main takes for identity field f from the metadata of segment n
MetaIdentity(n, f) == MetaGet(json_loads(pipe_metas[n]), f, MetaDefault(f))

InRegistry(cid) == cid \in SeqRange(LISTENING_CLIENTS) /\ cid \in DOMAIN CLIENT_IP_MAPPING

\* client id cid is in neither map
OutOfRegistry(cid) == cid \notin SeqRange(LISTENING_CLIENTS) /\ cid \notin DOMAIN CLIENT_IP_MAPPING

\* C17: an accepted client is in both maps until a disconnect, a receive
\* error, a send error or stop_listening takes it out, and nothing else does;
\* afterwards it is in neither map, and an event is only ever delivered to a
\* client that is in the registry.
C17_RegisteredUntilClosed ==
    /\ [](\A cid \in DOMAIN handler :
            /\ removed_by[cid] = "" => InRegistry(cid)
            /\ removed_by[cid] # "" =>
                  /\ OutOfRegistry(cid)
                  /\ removed_by[cid] \in {"disconnect", "receive_error", "send_error",
                                          "stop_listening"})
    /\ [][\A cid \in DOMAIN inbox : Delivers(cid) => InRegistry(cid)]_vars

\* the step handles a text frame of a client
HandlesText == nmsgs' # nmsgs

\* C18: a ping is answered with exactly one pong and changes neither the
\* registry nor the connection; stop_listening is answered with stopped, the
\* handler returns (the connection is closed) and the client is in neither
\* map; text that is not JSON is answered with nothing and changes nothing.
\* (A reply that cannot be sent ends the connection instead.)  No frame of
\* one client is answered to another.
C18_PingStopInvalid ==
    [][HandlesText =>
         LET cid == client_msg'.cid
             text == client_msg'.text
         IN /\ (text.json = "object" /\ text.type = "ping" /\ client_msg'.send_ok) =>
                  /\ replies'[cid] = Append(replies[cid], "pong")
                  /\ handler'[cid] = "open"
                  /\ UNCHANGED <<LISTENING_CLIENTS, CLIENT_IP_MAPPING>>
            /\ (text.json = "object" /\ text.type = "stop_listening"
                 /\ client_msg'.send_ok) =>
                  /\ replies'[cid] = Append(replies[cid], "stopped")
                  /\ handler'[cid] = "exited"
                  /\ cid \notin SeqRange(LISTENING_CLIENTS')
                  /\ cid \notin DOMAIN CLIENT_IP_MAPPING'
            /\ text.json = "invalid" =>
                  /\ replies'[cid] = replies[cid]
                  /\ handler'[cid] = "open"
                  /\ UNCHANGED <<LISTENING_CLIENTS, CLIENT_IP_MAPPING>>
            /\ \A other \in DOMAIN replies \ {cid} : replies'[other] = replies[other]
    ]_vars

\* a registered client sent a ping and then text that is not JSON: it has
\* one pong, is still connected and still registered
C18_Witness ==
    /\ nmsgs = 2
    /\ client_msg.text.json = "invalid"
    /\ replies[client_msg.cid] = <<"pong">>
    /\ handler[client_msg.cid] = "open"
    /\ InRegistry(client_msg.cid)

(* ============== claims about the end of a call in the capture ========== *)
\* the messages a step sends for call call_id, in order
SentFor(call_id) ==
    SelectSeq(SubSeq(zmq_out', Len(zmq_out) + 1, Len(zmq_out')),
              LAMBDA msg : msg.call_id = call_id)

\* what the end of call call_id is to send: its open segment if that holds
\* audio, then the end-of-call signal
FlushAndEnd(call_id) ==
    (IF call_id \in DOMAIN segments /\ segments[call_id].samples_received > 0
     THEN <<[type |-> "voice_segment", call_id |-> call_id,
             sequence |-> CounterGet(segment_counters, call_id),
             samples |-> segments[call_id].samples_received]>>
     ELSE <<>>) \o <<CallEndMsg(call_id)>>

\* C19: a SIP BYE for a known active call marks the call inactive and sends
\* the open segment, if it holds audio, whatever its duration, followed by
\* the end-of-call signal.
C19_ByeFlushesThenEnds ==
    [][(call_event'.kind = "bye" /\ ncall_events' # ncall_events) =>
         LET i == CallIndex(calls, call_event'.call_id)
         IN (i # 0 /\ calls[i].is_active) =>
               /\ ~calls'[i].is_active
               /\ SentFor(call_event'.call_id) = FlushAndEnd(call_event'.call_id)
    ]_vars

\* C20: at a timeout check every active call whose last packet is at least
\* CallTimeoutSec old is marked inactive and gets its open segment, if it
\* holds audio, and then the end-of-call signal sent; an active call whose
\* last packet is younger stays active and nothing is sent for it, and no
\* other step ends a call but a BYE.
C20_TimeoutFlushesThenEnds ==
    /\ [][(call_event'.kind = "check" /\ mono' # mono) =>
            \A i \in 1..Len(calls) :
                calls[i].is_active =>
                    IF mono - calls[i].last_packet_time >= CallTimeoutSec
                    THEN /\ ~calls'[i].is_active
                         /\ SentFor(calls[i].call_id) = FlushAndEnd(calls[i].call_id)
                    ELSE /\ calls'[i].is_active
                         /\ SentFor(calls[i].call_id) = <<>>
       ]_vars
    /\ [][\A i \in 1..Len(calls) :
            (calls[i].is_active /\ ~calls'[i].is_active) =>
                \/ call_event'.kind = "bye" /\ call_event'.call_id = calls[i].call_id
                \/ /\ call_event'.kind = "check"
                   /\ mono - calls[i].last_packet_time >= CallTimeoutSec
       ]_vars

(* ------------------- capture thread and timeout thread ------------------ *)
\* the end-of-call signal of call_id has been sent
EndEmitted(call_id) ==
    \E n \in 1..Len(zmq_out) :
        zmq_out[n].type = "call_end" /\ zmq_out[n].call_id = call_id

\* C21: once a call has been marked inactive and its end-of-call signal has
\* been sent, no step of the capture thread or of the timeout thread appends
\* a payload to the call's segment and none publishes a voice segment of it.
C21_NothingAfterCallEnd ==
    [][\A c \in SipCallIds :
          EndEmitted(c) =>
              /\ c \in DOMAIN segments' => (c \in DOMAIN segments /\ segments'[c] = segments[c])
              /\ \A n \in 1..Len(SentFor(c)) : SentFor(c)[n].type # "voice_segment"
    ]_vars

(* --------------------- the 16-bit sequence space ------------------------ *)
\* the packets arrived in ascending order, each once, none lost
InOrderRun(sq) ==
    /\ sq # <<>>
    /\ \A i \in 1 .. Len(sq) - 1 : sq[i + 1] = sq[i] + 1

\* C22: when the packets of a run arrive in order, also across the wrap from
\* 65535 to 0, the VoiceSegment fed through add_packet holds their payloads
\* in that order, reports no gap and keeps no packet pending.
C22_InOrderAcrossWrap ==
    InOrderRun(arrivals) =>
        /\ seg.buffer = WithSilence(arrivals, arrivals[1], arrivals[Len(arrivals)])
        /\ seg.discontinuities = 0
        /\ seg.max_seq_gap = 0
        /\ seg.packet_buffer = <<>>

(* --------------------- the reassembly buffer ---------------------------- *)
\* payloads _process_packet has appended to the segment so far
Appended(sg) == sg.silence_packets + sg.non_silence_packets

\* the packet of the call that carries sequence number s
PacketOfSeq(s) == CHOOSE k \in 0 .. NPkts - 1 : SeqOf(base_seq, k) = s

\* buf with the payloads of sequence numbers first, first + 1, ... (n of them)
RECURSIVE ExtendRun(_, _, _)
ExtendRun(buf, first, n) ==
    IF n = 0 THEN buf
    ELSE ExtendRun(Extend(buf, PayloadOf(PacketOfSeq(first))), first + 1, n - 1)

\* number of bytes of value b in buf
RECURSIVE CountByte(_, _)
CountByte(buf, b) ==
    IF buf = <<>> THEN 0
    ELSE (IF Head(buf).b = b THEN Head(buf).n ELSE 0) + CountByte(Tail(buf), b)

\* C23: in the VoiceSegment fed through add_packet no packet's payload is in
\* the segment more than once, and each delivery appends the payloads of the
\* sequence numbers that follow last_processed_seq, in ascending order with
\* none skipped, and moves last_processed_seq forward by exactly the number
\* of payloads appended (from seq - 1 on the first delivery).
C23_AppendedOnceAscending ==
    /\ [](\A k \in 0 .. NPkts - 2 :
            CountByte(seg.buffer, k + 1) <= ByteLen(PayloadOf(k)))
    /\ [](seg.samples_received = PayloadLen * Appended(seg))
    /\ [][Len(arrivals') > Len(arrivals) =>
            LET n == Appended(seg') - Appended(seg)
                from == IF seg.last_processed_seq = <<>>
                        THEN SeqOf(base_seq, arrivals'[Len(arrivals')]) - 1
                        ELSE seg.last_processed_seq[1]
            IN /\ n >= 0
               /\ seg'.last_processed_seq = <<from + n>>
               /\ seg'.buffer = ExtendRun(seg.buffer, from + 1, n)
       ]_vars

\* a packet that arrived early was kept pending and released in order once
\* the missing one came, and a packet delivered again after that was not
\* appended again
C23_Witness ==
    /\ base_seq = 1000
    /\ arrivals = <<0, 2, 1, 1>>
    /\ seg.last_processed_seq = <<1002>>
    /\ seg.buffer = ExtendRun(NoBytes, 1000, 3)

(* --------------------- segments and the threshold ----------------------- *)
\* packet_callback appends a payload when at least 10% of it is not silence
Accepted(k) == NonSilenceCount(PayloadOf(k)) * 10 >= ByteLen(PayloadOf(k))

\* the payloads of the accepted packets among sq, in order of arrival
RECURSIVE AcceptedBytes(_)
AcceptedBytes(sq) ==
    IF sq = <<>> THEN NoBytes
    ELSE Extend(IF Accepted(Head(sq)) THEN PayloadOf(Head(sq)) ELSE NoBytes,
                AcceptedBytes(Tail(sq)))

\* C24: after every packet the call's open segment holds less than
\* duration_threshold samples; a segment was published with the packet that
\* took it to the threshold and a fresh empty segment took its place; and the
\* published segments followed by the open one hold every accepted payload
\* exactly once, in order of arrival, so no byte is published twice.
C24_PublishedAtThresholdOnce ==
    /\ [](CallId \in DOMAIN segments =>
             segments[CallId].samples_received < duration_threshold)
    /\ [](\A n \in 1 .. Len(published) :
             /\ published[n].samples >= duration_threshold
             /\ published[n].samples - PayloadLen < duration_threshold
             /\ published[n].samples = ByteLen(published[n].bytes))
    /\ [](CaptureBytes(Capture) = AcceptedBytes(arrivals))
    /\ [][Len(published') > Len(published) =>
            /\ Len(published') = Len(published) + 1
            /\ segments'[CallId] = VoiceSegmentNew(CounterGet(segment_counters', CallId))
       ]_vars

\* a segment was published at the threshold and the next accepted payload is
\* in the fresh segment
C24_Witness ==
    /\ Len(published) = 1
    /\ published[1].samples = duration_threshold
    /\ CallId \in DOMAIN segments
    /\ segments[CallId].samples_received = PayloadLen
    /\ segments[CallId].buffer = PayloadOf(arrivals[Len(arrivals)])

(* --------------------- segment sequence numbers ------------------------- *)
\* the accepted packets among sq, in order of arrival
AcceptedOf(sq) == SelectSeq(sq, Accepted)

\* C25: the n-th segment published for the call carries sequence number
\* n - 1 (0 first, none reused, none skipped), the counter holds the number
\* of the next one, and the segments hold the accepted audio in the order it
\* was captured.
C25_SequenceCountsFromZero ==
    /\ \A n \in 1 .. Len(published) :
          /\ published[n].call_id = CallId
          /\ published[n].sequence = n - 1
    /\ CounterGet(segment_counters, CallId) = Len(published)
    /\ CallId \in DOMAIN segments => segments[CallId].sequence = Len(published)
    /\ PublishedBytes(published)
          = AcceptedBytes(SubSeq(AcceptedOf(arrivals), 1,
                                 (ByteLen(PublishedBytes(published)) \div PayloadLen)))

\* three segments of the call have been published, numbered 0, 1, 2, each
\* with the payload of one packet
C25_Witness ==
    /\ Len(published) = 3
    /\ published[3].sequence = 2
    /\ published[1].bytes = PayloadOf(arrivals[1])
    /\ published[3].bytes = PayloadOf(arrivals[3])
    /\ arrivals[1] # arrivals[3]

(* --------------------- RTP from an ambiguous address -------------------- *)
\* the active calls whose from_ip is ip
ActiveFrom(ip) == {i \in 1 .. Len(calls) : calls[i].is_active /\ calls[i].from_ip = ip}

\* C26: an RTP packet whose source address is the from_ip of more than one
\* active call changes no segment and no call entry (last_packet_time
\* included), and nothing is published for it.
C26_AmbiguousRtpDropped ==
    [][(call_event'.kind = "rtp" /\ ncall_events' # ncall_events
          /\ Cardinality(ActiveFrom(call_event'.src_ip)) > 1) =>
            /\ segments' = segments
            /\ segment_counters' = segment_counters
            /\ calls' = calls
            /\ published' = published
            /\ zmq_out' = zmq_out
    ]_vars

\* an RTP packet has just been handled whose address belongs to two active
\* calls, at a later second than the calls' last packet, and the segment
\* opened while only one call was active still holds one payload
C26_Witness ==
    /\ call_event.kind = "rtp"
    /\ Cardinality(ActiveFrom(call_event.src_ip)) = 2
    /\ \A i \in ActiveFrom(call_event.src_ip) : calls[i].last_packet_time < mono
    /\ \E c \in DOMAIN segments : segments[c].samples_received = PayloadLen

(* --------------------------- SIP INVITE --------------------------------- *)
\* the direction process_sip_packet derives for an INVITE from src_ip
DirectionOf(src_ip) == IF src_ip # ServerIp THEN "outgoing" ELSE "incoming"

\* C27: an INVITE with a Call-ID that is not in the call table adds one
\* active entry for it, with the direction derived from the source address;
\* an INVITE with a known Call-ID leaves the table as it is.
C27_InviteCreatesEntry ==
    [][(call_event'.kind = "invite" /\ ncall_events' # ncall_events) =>
         LET call_id == call_event'.call_id
             src_ip == call_event'.src_ip
         IN IF CallIndex(calls, call_id) = 0
            THEN /\ Len(calls') = Len(calls) + 1
                 /\ SubSeq(calls', 1, Len(calls)) = calls
                 /\ calls'[Len(calls')].call_id = call_id
                 /\ calls'[Len(calls')].is_active
                 /\ calls'[Len(calls')].call_direction = DirectionOf(src_ip)
            ELSE calls' = calls
    ]_vars

(* ------------------- is_finished on published events -------------------- *)
\* C28: every asr_update the daemon has published carries is_finished =
\* false, whatever segment it came from, and every call_finished carries
\* is_finished = true.
C28_AsrUpdateNeverFinished ==
    \A i \in 1 .. Len(wire) :
        /\ IsAsr(i) => ~wire[i].is_finished
        /\ IsFinish(i) => wire[i].is_finished

(* ------------------- call_finished and failed recognition --------------- *)
\* segment n passed the allow list
SegPassed(n) == allow_ips = NoneSet \/ seg_log[n].meta.peer_ip \in allow_ips

\* segment n gave the recogniser nothing to return: no audio, or no text
NoText(n) == seg_log[n].pcm_len = 0 \/ seg_log[n].text = ""

\* the call_finished events and the asr_update events published from segment n
FinishesOf(n) == {i \in 1 .. Len(wire) : IsFinish(i) /\ wire_info[i].seg = n}

PublishedAsrOf(n) == {i \in 1 .. Len(wire) : IsAsr(i) /\ wire_info[i].seg = n}

\* the asr_update events of segment n that are held in a queue
HeldAsrOf(n) ==
    {qj \in (1 .. Len(queues)) \X (1 .. MaxSegs + 1) :
        /\ qj[2] <= Len(queues[qj[1]].heap)
        /\ queues[qj[1]].heap[qj[2]].seg = n}

\* C29: a segment that passed the allow list and has IsFinished = true has
\* exactly one call_finished event, with empty text and the segment's
\* identity, whether or not it had audio or text; any other segment has
\* none.  A segment in which nothing was recognised has no asr_update,
\* published or held, and every accepted segment in which text was
\* recognised has exactly one, also when it follows a segment without text.
C29_OneCallFinishedPerFinalSegment ==
    \A n \in 1 .. Len(seg_log) :
        LET meta == seg_log[n].meta
        IN /\ Cardinality(FinishesOf(n))
                = (IF SegPassed(n) /\ meta.IsFinished THEN 1 ELSE 0)
           /\ \A i \in FinishesOf(n) :
                 /\ wire[i].text = ""
                 /\ CallIdOf(wire[i]) = <<meta.peer_ip, meta.source, meta.unique_key, meta.ssrc>>
           /\ Cardinality(PublishedAsrOf(n)) + Cardinality(HeldAsrOf(n))
                = (IF SegPassed(n) /\ ~NoText(n) THEN 1 ELSE 0)

\* a segment of a call in which nothing was recognised was followed by one
\* of the same call with text, which has its asr_update, and by the final
\* segment without audio, which has its call_finished
C29_Witness ==
    /\ Len(seg_log) = 3
    /\ \A n \in 1 .. 3 : SegPassed(n) /\ seg_log[n].meta.peer_ip = "10.0.0.1"
    /\ seg_log[1].pcm_len > 0 /\ seg_log[1].text = "" /\ ~seg_log[1].meta.IsFinished
    /\ seg_log[2].text # "" /\ PublishedAsrOf(2) # {}
    /\ seg_log[3].pcm_len = 0 /\ seg_log[3].meta.IsFinished /\ FinishesOf(3) # {}
    /\ daemon_pc = "running"

(* ---------------------------- no retries -------------------------------- *)
\* the summarization requests made to an endpoint for the n-th request
SummarizationCalls(n) ==
    {c \in summaries[n].first .. summaries[n].last :
        lb_calls[c].by = "call_deepseek_model"}

\* C30: a ticket request makes at most one summarization request to an LLM
\* endpoint, and when that request fails the caller gets an error and no
\* further summarization request is made for it.
C30_NoRetries ==
    \A n \in 1 .. Len(summaries) :
        /\ Cardinality(SummarizationCalls(n)) <= 1
        /\ lb_calls[summaries[n].first].outcome # "ok" => summaries[n].status # 200

(* ------------------- the marks a request leaves ------------------------ *)
\* the response of the request had a 2xx status
Status2xx(outcome) == outcome \in {"ok", "bad_json"}

\* C31: after a request to endpoint e, e is healthy when the response was
\* 2xx with its error count as before, and unhealthy with its error count
\* one higher otherwise; the health flag, request count and error count of
\* every other endpoint are as before.
C31_MarksFollowStatus ==
    [][Len(lb_calls') = Len(lb_calls) + 1 =>
          LET c == lb_calls'[Len(lb_calls')]
              e == c.endpoint
          IN /\ Status2xx(c.outcome) =>
                   health_status'[e] /\ error_count'[e] = error_count[e]
             /\ ~Status2xx(c.outcome) =>
                   ~health_status'[e] /\ error_count'[e] = error_count[e] + 1
             /\ \A o \in SeqElems(endpoints) \ {e} :
                   /\ health_status'[o] = health_status[o]
                   /\ request_count'[o] = request_count[o]
                   /\ error_count'[o] = error_count[o]]_vars

(* ----------------------- a send that fails ------------------------------ *)
\* the step is the return of asyncio.gather in _dispatch_asr_event
GatherReturns == dispatch_pc = "gather" /\ dispatch_pc' = "idle"

\* the send task created for client cid delivered nothing
SendFailed(cid) == inbox'[cid] = inbox[cid]

\* C32: when asyncio.gather returns, every client a send task was created
\* for either has the event appended to what it received, and is in the
\* registry afterwards if it was before, or its send failed and it is in
\* neither map afterwards; a failed send for one client keeps the event from
\* no other; and no client without a send task enters or leaves the maps.
C32_FailedSendDropsOnlyThatClient ==
    [][GatherReturns =>
          /\ \A cid \in SeqRange(dispatch_tasks) :
                IF SendFailed(cid)
                THEN /\ cid \notin SeqRange(LISTENING_CLIENTS')
                     /\ cid \notin DOMAIN CLIENT_IP_MAPPING'
                ELSE /\ inbox'[cid] = Append(inbox[cid], dispatch_evt)
                     /\ cid \in SeqRange(LISTENING_CLIENTS)
                           => cid \in SeqRange(LISTENING_CLIENTS')
                     /\ cid \in DOMAIN CLIENT_IP_MAPPING
                           => /\ cid \in DOMAIN CLIENT_IP_MAPPING'
                              /\ CLIENT_IP_MAPPING'[cid] = CLIENT_IP_MAPPING[cid]
          /\ \A cid \in DOMAIN inbox \ SeqRange(dispatch_tasks) :
                /\ inbox'[cid] = inbox[cid]
                /\ cid \in SeqRange(LISTENING_CLIENTS') <=> cid \in SeqRange(LISTENING_CLIENTS)
                /\ cid \in DOMAIN CLIENT_IP_MAPPING' <=> cid \in DOMAIN CLIENT_IP_MAPPING]_vars

\* an event had two target clients, both connected: the send to one failed
\* and that client is out of the registry, the other received the event and
\* is still registered
C32_Witness ==
    /\ dispatch_pc = "idle"
    /\ \E c1, c2 \in SeqRange(dispatch_tasks) :
         /\ c1 # c2
         /\ handler[c1] = "open" /\ handler[c2] = "open"
         /\ removed_by[c1] = "send_error" /\ inbox[c1] = <<>> /\ OutOfRegistry(c1)
         /\ inbox[c2] = <<dispatch_evt>> /\ InRegistry(c2)

(* ------------------- the consume task after an error -------------------- *)
\* C33: while the application serves, a consume task that an error has
\* ended is followed by a running consume task (or by the shutdown of the
\* application), so that the events arriving afterwards are dispatched.
C33_FailedTaskRestarted ==
    (ZMQ_TASK = "failed" /\ lifespan = "serving")
        ~> (ZMQ_TASK = "running" \/ lifespan = "shutdown")

(* ------------- the manager's state for a peer after its call ------------ *)
\* the step publishes a call_finished event
PublishesFinish == Len(wire') > Len(wire) /\ wire'[Len(wire')].type = "call_finished"

\* C34: once a call_finished has been processed for a peer, the event queue
\* manager holds neither a heap nor a last_published entry for that peer.
C34_NoStateAfterFinish ==
    [][PublishesFinish =>
          LET peer_ip == wire'[Len(wire')].peer_ip
          IN /\ peer_ip \notin DOMAIN last_published'
             /\ QIndex(queues', peer_ip) = 0]_vars

(* --------------------------- the shutdown ------------------------------- *)
\* the events pending in the heaps of qs, heap after heap
RECURSIVE AllPending(_)
AllPending(qs) ==
    IF qs = <<>> THEN <<>>
    ELSE [k \in 1..Len(qs[1].heap) |-> qs[1].heap[k].event] \o AllPending(Tail(qs))

\* the step is the finally block of main
ShutsDown == daemon_pc = "running" /\ daemon_pc' = "exited"

\* C35: the shutdown publishes every event pending in a heap, each once and
\* nothing else, the events of one peer in ascending voice_start_ts order,
\* and leaves no heap; once the daemon has exited nothing more is published.
C35_ShutdownDrainsHeaps ==
    /\ [][ShutsDown =>
            LET new == SubSeq(wire', Len(wire) + 1, Len(wire'))
                pending == AllPending(queues)
            IN /\ SubSeq(wire', 1, Len(wire)) = wire
               /\ Len(new) = Len(pending)
               /\ \A k \in 1..Len(pending) :
                     CountIn(new, pending[k]) = CountIn(pending, pending[k])
               /\ \A a \in 1..Len(new), b \in 1..Len(new) :
                     (a < b /\ new[a].peer_ip = new[b].peer_ip)
                        => new[a].voice_start_ts <= new[b].voice_start_ts
               /\ queues' = <<>>]_vars
    /\ [][daemon_pc = "exited" => wire' = wire /\ queues' = queues]_vars

\* the daemon has exited and its shutdown published two events of one peer
\* in ascending voice_start_ts order, the earlier of which had been received
\* later
C35_Witness ==
    /\ daemon_pc = "exited"
    /\ queues = <<>>
    /\ \E i \in 1..Len(wire), j \in 1..Len(wire) :
         /\ i < j
         /\ wire_info[i].by = "flush_all" /\ wire_info[j].by = "flush_all"
         /\ wire[i].peer_ip = wire[j].peer_ip
         /\ wire[i].voice_start_ts < wire[j].voice_start_ts
         /\ wire_info[i].seg > wire_info[j].seg

(* ------------------- last_published of a peer --------------------------- *)
\* the peers that have a last_published entry before and after the step
KeepsLastPublished == (DOMAIN last_published) \cap (DOMAIN last_published')

\* the positions in wire' of the events try_publish_ready_events published
\* for peer_ip in the step
TryPublishedInStep(peer_ip) ==
    {j \in (Len(wire) + 1)..Len(wire') :
        wire_info'[j].by = "try_publish" /\ wire'[j].peer_ip = peer_ip}

\* C36 as stated: while last_published[peer] exists it never decreases.
C36_LastPublishedNeverDecreases ==
    [][\A peer_ip \in KeepsLastPublished :
          last_published'[peer_ip] >= last_published[peer_ip]]_vars

\* C36, amended: last_published[peer] is the voice_start_ts of the event
\* try_publish_ready_events published last for the peer, and while it exists
\* it decreases only in a step in which try_publish_ready_events publishes
\* an event of the peer that had waited at least max_delay.
C36_LastPublishedDecreasesOnlyAfterMaxDelay ==
    [][\A peer_ip \in DOMAIN last_published' :
          /\ TryPublishedInStep(peer_ip) # {} =>
                \E j \in TryPublishedInStep(peer_ip) :
                    /\ \A k \in TryPublishedInStep(peer_ip) : k <= j
                    /\ last_published'[peer_ip] = wire'[j].voice_start_ts
          /\ TryPublishedInStep(peer_ip) = {} /\ peer_ip \in DOMAIN last_published =>
                last_published'[peer_ip] = last_published[peer_ip]
          /\ (/\ peer_ip \in DOMAIN last_published
              /\ last_published'[peer_ip] < last_published[peer_ip]) =>
                \E j \in TryPublishedInStep(peer_ip) :
                    /\ wire_info'[j].wait >= MaxDelay
                    /\ wire'[j].voice_start_ts < last_published[peer_ip]]_vars

\* an event that had waited max_delay was the last one published for its
\* peer, after an event with a later stamp, and last_published of the peer
\* has its stamp
C36_Witness ==
    \E i \in 1..Len(wire), j \in 1..Len(wire) :
        /\ i < j
        /\ wire[i].type = "asr_update" /\ wire[j].type = "asr_update"
        /\ wire[i].peer_ip = wire[j].peer_ip
        /\ \A k \in (i + 1)..Len(wire) : k # j => wire[k].peer_ip # wire[j].peer_ip
        /\ wire_info[i].by = "try_publish" /\ wire_info[j].by = "try_publish"
        /\ wire_info[j].wait >= MaxDelay
        /\ wire[j].voice_start_ts < wire[i].voice_start_ts
        /\ wire[j].peer_ip \in DOMAIN last_published
        /\ last_published[wire[j].peer_ip] = wire[j].voice_start_ts

(* ----------------------- one call_end per call -------------------------- *)
\* the call_end messages published for call_id
CallEndsFor(call_id) ==
    {i \in 1..Len(zmq_out) : zmq_out[i] = CallEndMsg(call_id)}

\* C37: at most one call_end is published for a call, whatever BYE requests
\* and timeouts follow one another.
C37_AtMostOneCallEnd ==
    \A call_id \in SipCallIds : Cardinality(CallEndsFor(call_id)) <= 1

(* ------------------ every event published once -------------------------- *)
\* the pending events in the heaps of qs, heap after heap
RECURSIVE PendingIn(_)
PendingIn(qs) ==
    IF qs = <<>> THEN <<>> ELSE qs[1].heap \o PendingIn(Tail(qs))

\* the positions in w_info of the events published out of a heap
FromHeap(w_info) ==
    {j \in 1..Len(w_info) : w_info[j].by \in {"try_publish", "flush_peer", "flush_all"}}

\* the segments whose event is pending in qs, and those whose event was
\* published out of a heap
PendingSegs(qs) == {PendingIn(qs)[k].seg : k \in 1..Len(PendingIn(qs))}
PublishedSegs(w_info) == {w_info[j].seg : j \in FromHeap(w_info)}

\* C38: a segment adds at most one event; an added event is in exactly one
\* heap, that of its peer, until it is popped, and is handed to the PUB
\* socket when it is popped, once; what is published out of a heap is an
\* event that was pending, or the one the segment being handled added; and
\* no pending event leaves its heap in another way.
C38_AddedEventsPublishedOnce ==
    /\ [](/\ PendingSegs(queues) \cap PublishedSegs(wire_info) = {}
          /\ Cardinality(PendingSegs(queues)) = Len(PendingIn(queues))
          /\ Cardinality(PublishedSegs(wire_info)) = Cardinality(FromHeap(wire_info))
          /\ PendingSegs(queues) \cup PublishedSegs(wire_info) \subseteq 1..nsegs
          /\ \A i \in 1..Len(queues) : \A k \in 1..Len(queues[i].heap) :
                queues[i].heap[k].event.peer_ip = queues[i].peer_ip)
    /\ [][/\ SubSeq(wire', 1, Len(wire)) = wire
          /\ PendingSegs(queues) \subseteq PendingSegs(queues') \cup PublishedSegs(wire_info')
          /\ PendingSegs(queues') \cup PublishedSegs(wire_info')
                \subseteq PendingSegs(queues) \cup PublishedSegs(wire_info) \cup {nsegs + 1}
          /\ \A j \in FromHeap(wire_info') :
                j > Len(wire) =>
                   \/ \E k \in 1..Len(PendingIn(queues)) :
                         /\ PendingIn(queues)[k].seg = wire_info'[j].seg
                         /\ PendingIn(queues)[k].event = wire'[j]
                   \/ /\ wire_info'[j].seg = nsegs + 1
                      /\ nsegs' = nsegs + 1
                      /\ wire'[j].type = "asr_update"
                      /\ wire'[j].peer_ip = last_peer'
          /\ \A k \in 1..Len(PendingIn(queues')) :
                \/ \E h \in 1..Len(PendingIn(queues)) :
                      PendingIn(queues)[h] = PendingIn(queues')[k]
                \/ /\ PendingIn(queues')[k].seg = nsegs + 1
                   /\ nsegs' = nsegs + 1
                   /\ PendingIn(queues')[k].event.peer_ip = last_peer']_vars

\* three events were added and each was published once: two by
\* try_publish_ready_events on arrival and one, between them, after it had
\* been held max_delay; no heap is left
C38_Witness ==
    /\ PendingIn(queues) = <<>>
    /\ Cardinality(FromHeap(wire_info)) = 3
    /\ PublishedSegs(wire_info) = {1, 2, 3}
    /\ \E i \in FromHeap(wire_info), j \in FromHeap(wire_info) :
         /\ i < j
         /\ wire_info[i].by = "try_publish" /\ wire_info[i].wait = 0
         /\ wire_info[j].by = "try_publish" /\ wire_info[j].wait >= MaxDelay
         /\ wire_info[j].seg = 2

(* ----------------- an unhealthy endpoint stays unhealthy ---------------- *)
\* the endpoints whose health flag is set
HealthyNow == {ep \in DOMAIN health_status : health_status[ep]}

\* the step is a request, to endpoint ep
RequestTo(ep) ==
    /\ Len(lb_calls') = Len(lb_calls) + 1
    /\ lb_calls'[Len(lb_calls')].endpoint = ep

\* C39: while some endpoint is healthy no request goes to an unhealthy
\* endpoint and every unhealthy endpoint stays unhealthy; an unhealthy
\* endpoint becomes healthy only by a request to it that is made when no
\* endpoint is healthy and that gets a 2xx response.
C39_UnhealthyUntilAllUnhealthy ==
    [][\A ep \in DOMAIN health_status :
          ~health_status[ep] =>
             /\ HealthyNow # {} => ~RequestTo(ep) /\ ~health_status'[ep]
             /\ health_status'[ep] =>
                   /\ HealthyNow = {}
                   /\ RequestTo(ep)
                   /\ lb_calls'[Len(lb_calls')].outcome \in {"ok", "bad_json"}]_vars

\* of three endpoints one became unhealthy and was passed over by two
\* requests while the others were healthy; then the others failed too, and a
\* request chosen at random went to it and brought it back
C39_Witness ==
    /\ Len(endpoints) = 3
    /\ \E i \in 1..Len(lb_calls) : \E j \in (i + 1)..Len(lb_calls) :
         LET ep == lb_calls[i].endpoint
         IN /\ lb_calls[i].outcome = "timeout"
            /\ \A k \in (i + 1)..(j - 1) : lb_calls[k].endpoint # ep
            /\ \E k \in (i + 1)..(j - 1) : lb_calls[k].healthy # {}
            /\ lb_calls[j].healthy = {}
            /\ lb_calls[j].endpoint = ep
            /\ lb_calls[j].outcome = "ok"
            /\ j = Len(lb_calls)
            /\ health_status[ep]

====
